---- MODULE Spec2Model ----
(***************************************************************************)
(* Model of the map-reduce query pipeline of the synapse backend:          *)
(*   backend/app/services/mapreduce_service.py  (MapReduceService)         *)
(*   backend/app/api/v1/endpoints/chat.py       (cancel_job)               *)
(*   backend/app/services/intent_service.py    (IntentClassifier)         *)
(*   backend/app/services/search_service.py    (SearchService)            *)
(*                                                                         *)
(* process_query is an asyncio coroutine: it runs atomically between two   *)
(* awaits.  pc is the await at which the coroutine is suspended; every     *)
(* action below is the code that runs when that await returns (or raises)  *)
(* up to the next await.  The batch tasks created by _map_phase are        *)
(* modelled the same way, one record per task.                             *)
(***************************************************************************)
EXTENDS Integers, Sequences, FiniteSets, Bags, TLC

VARIABLES
    status,             \* job.status, as process_query's session holds it
    current_phase,      \* job.current_phase
    total_items,        \* job.total_items
    total_batches,      \* job.total_batches
    processed_batches,  \* job.processed_batches
    processed_items,    \* job.processed_items
    progress,           \* job.progress, a double [num, den, ulp]
    started_at,         \* job.started_at: "none" while it is None, or "set"
    completed_at,       \* job.completed_at: 0 while it is None, or the time
    failed_batches,     \* job.failed_batches
    result,             \* job.result
    error_message,      \* job.error_message
    error_phase,        \* job.error_details["phase"]
    pc,                 \* await at which process_query is suspended
    items_with_chunks,  \* local of process_query: chunk count of each item
    context_count,      \* len(items_with_chunks) once the batches exist
    batch_len,          \* len(batch) of each batch handed to _map_phase
    task,               \* the batch tasks of _map_phase
    permits,            \* value of the asyncio.Semaphore of _map_phase
    map_results,        \* map_results built by _map_phase after gather
    reduce_calls,       \* completion calls issued by _reduce_phase
    intent,             \* intent_data["intent_type"], "none" until read
    aggregation_details,\* job.aggregation_details, <<>> while it is None
    row,                \* the job's row of ProcessingJob in the database
    requests,           \* the requests to cancel_job, in order of arrival
    pool,               \* the batch tasks of _map_phase in the wide model
    fn_pc,              \* "input" before, "output" after a function is applied
    fn_input,           \* the arguments a function model is applied to
    fn_output           \* what it returned

\* the job in the session of process_query, and the run
runvars == <<status, current_phase, total_items, total_batches,
             processed_batches, failed_batches, result, error_message,
             error_phase, pc, items_with_chunks, context_count, batch_len,
             task, permits, map_results, reduce_calls, intent,
             aggregation_details, processed_items, progress, started_at,
             completed_at>>

jobvars == <<runvars, row, requests>>

fnvars == <<fn_pc, fn_input, fn_output>>

\* what no step of process_query and of its tasks changes
fixed == <<started_at, requests, pool, fnvars>>

\* what the steps of the job that end it leave alone
carried == <<intent, aggregation_details, processed_items, progress, fixed>>

\* what the steps of the job leave alone, but for the steps that end it,
\* read the intent, write aggregation_details or report progress
others == <<completed_at, carried>>

vars == <<jobvars, pool, fnvars>>

----------------------------------------------------------------------------
(* Program constants (class attributes of MapReduceService).               *)

TARGET_CHUNKS_PER_BATCH == 10
MAX_CONCURRENT_MAP_CALLS == 10
MAP_RETRY_ATTEMPTS == 2

\* "Commit progress every 5 batches": job.processed_batches % 5 == 0
COMMIT_EVERY == 5

----------------------------------------------------------------------------
(* Bounds of the model.                                                    *)

\* largest number of items a fetch returns in the job model
MaxItems == 5

\* The job model follows in full the runs on at most MaxDetailItems items:
\* there a completion call answers with any object of MapResponses and
\* raises any message of CallErrors, the job may come without started_at,
\* and requests to cancel_job are served while it runs.  A run on more
\* items has started_at set, sees no request, and its calls answer with
\* the full extraction or raise one of PlainErrors.
MaxDetailItems == 2

\* requests to cancel_job served while process_query runs
MaxJobRequests == 1

\* chunk counts of the fetched items in the job model: 6 + 6 fills a batch
\* to 1.2 x target exactly, 16 is above 1.5 x target
JobChunks == {6, 16}

\* number of batches in the wide model of the map phase: one more than the
\* semaphore has permits
WideBatches == 11

\* largest number of attempts that raise in the wide runs followed to the
\* end of process_query: two tasks fail both attempts and a third is
\* retried
MaxWideRaises == 5

\* longest list of items _create_smart_batches is applied to on its own
MaxBatchItems == 4

\* chunk counts of those items: none, half of 1.2 x target, just above it,
\* above 1.2 x target alone, 1.5 x target, above 1.5 x target
BatchChunks == {0, 6, 7, 13, 15, 16}

\* longest list of map results _calculate_aggregation is applied to
MaxResults == 3

\* bound on the counter job.processed_batches (each batch adds at most
\* MAP_RETRY_ATTEMPTS to it)
MaxProcessed == MaxItems * MAP_RETRY_ATTEMPTS

----------------------------------------------------------------------------
(* Generic helpers.                                                        *)

RECURSIVE SumSeq(_)
SumSeq(s) ==
    IF s = <<>> THEN 0 ELSE Head(s) + SumSeq(Tail(s))

RECURSIVE Flatten(_)
Flatten(ss) ==
    IF ss = <<>> THEN <<>> ELSE Head(ss) \o Flatten(Tail(ss))

SeqsUpTo(S, n) ==
    UNION {[1..k -> S] : k \in 0..n}

CountOf(s, x) ==
    Cardinality({i \in DOMAIN s : s[i] = x})

----------------------------------------------------------------------------
(* Values of the job fields.                                               *)

Terminal == {"completed", "failed", "cancelled"}

Phases == <<"initialization", "map", "reduce", "synthesis", "complete">>

\* position of a phase in the pipeline; 0 for a job no run has touched
PhaseRank(p) ==
    IF \E k \in DOMAIN Phases : Phases[k] = p
    THEN CHOOSE k \in DOMAIN Phases : Phases[k] = p
    ELSE 0

\* lists of items (chunk counts) a fetch can return in the job model
JobItemLists == SeqsUpTo(JobChunks, MaxItems)

\* job.progress is a double.  The model keeps the fraction num / den and
\* the distance ulp, in doubles, of the value from the double nearest to
\* that fraction: 0 for a literal, -1 or 1 where the arithmetic of line 373
\* rounds to the double below or above.
Double(n, d, k) == [num |-> n, den |-> d, ulp |-> k]

Fraction(n, d) == Double(n, d, 0)

\* a <= b on doubles: two distinct fractions of the model are further apart
\* than any rounding, equal fractions compare by their distance
FracLeq(a, b) ==
    \/ a.num * b.den < b.num * a.den
    \/ a.num * b.den = b.num * a.den /\ a.ulp <= b.ulp

FracEq(a, b) == a.num * b.den = b.num * a.den /\ a.ulp = b.ulp

\* the ratios processed / total at which 0.1 + (0.75 * (processed / total))
\* evaluates to the double below the nearest one, for totals up to 13
RoundedBelow ==
    {<<1, 7>>, <<3, 5>>, <<3, 7>>, <<3, 10>>, <<4, 11>>, <<6, 5>>,
     <<6, 7>>, <<6, 13>>, <<7, 10>>, <<8, 7>>, <<8, 9>>, <<8, 11>>,
     <<9, 13>>, <<10, 11>>, <<11, 13>>, <<12, 11>>, <<15, 13>>}

\* the ratios at which it evaluates to the double above the nearest one
RoundedAbove ==
    {<<1, 9>>, <<1, 10>>, <<3, 13>>, <<4, 5>>, <<4, 13>>, <<5, 13>>,
     <<8, 5>>, <<9, 5>>, <<9, 7>>, <<11, 5>>, <<11, 7>>, <<11, 9>>,
     <<13, 10>>, <<13, 11>>, <<14, 9>>, <<14, 11>>, <<15, 7>>, <<16, 13>>,
     <<17, 11>>, <<17, 13>>, <<19, 9>>, <<20, 9>>, <<20, 13>>, <<21, 10>>,
     <<21, 11>>, <<21, 13>>, <<27, 13>>, <<28, 13>>}

\* whether processed / total is one of the ratios of a set above
RatioIn(processed, total, ratios) ==
    \E r \in ratios : processed * r[2] = r[1] * total

\* the rounding of line 373 at processed / total
MapProgressUlp(processed, total) ==
    IF RatioIn(processed, total, RoundedBelow) THEN -1
    ELSE IF RatioIn(processed, total, RoundedAbove) THEN 1
    ELSE 0

\* MapProgress reporting the share of the batches still to do
MapProgressOfRemaining(processed, total) ==
    Fraction(2 * total + 15 * (total - processed), 20 * total)

\* line 373: 0.1 + (0.75 * (job.processed_batches / job.total_batches))
MapProgress(processed, total) ==
    Double(2 * total + 15 * processed, 20 * total,
           MapProgressUlp(processed, total))

\* line 89: 0.85
ReduceProgress == Fraction(17, 20)

\* line 99: 0.95
SynthesisProgress == Fraction(19, 20)

\* line 114: 1.0
CompleteProgress == Fraction(1, 1)

----------------------------------------------------------------------------
(* _create_smart_batches: the loop body and the trailing flush.  An item   *)
(* is [id, chunks]; st is [batches, current_batch, current_chunk_count].   *)
(* The thresholds are TARGET * 1.5 and TARGET * 1.2, compared here after   *)
(* multiplying both sides by 10.                                           *)

\* BatchStep comparing the batch's count alone, without the next item
BatchStepNoLookahead(st, item_data) ==
    LET chunk_count == item_data.chunks IN
    IF chunk_count * 10 > TARGET_CHUNKS_PER_BATCH * 15
    THEN [batches |-> (IF st.current_batch # <<>>
                       THEN Append(st.batches, st.current_batch)
                       ELSE st.batches) \o << <<item_data>> >>,
          current_batch |-> <<>>,
          current_chunk_count |-> 0]
    ELSE IF st.current_chunk_count * 10 > TARGET_CHUNKS_PER_BATCH * 12
    THEN [batches |-> IF st.current_batch # <<>>
                      THEN Append(st.batches, st.current_batch)
                      ELSE st.batches,
          current_batch |-> <<item_data>>,
          current_chunk_count |-> chunk_count]
    ELSE [batches |-> st.batches,
          current_batch |-> Append(st.current_batch, item_data),
          current_chunk_count |-> st.current_chunk_count + chunk_count]

BatchStep(st, item_data) ==
    LET chunk_count == item_data.chunks IN
    IF chunk_count * 10 > TARGET_CHUNKS_PER_BATCH * 15
    THEN [batches |-> (IF st.current_batch # <<>>
                       THEN Append(st.batches, st.current_batch)
                       ELSE st.batches) \o << <<item_data>> >>,
          current_batch |-> IF st.current_batch # <<>> THEN <<>>
                            ELSE st.current_batch,
          current_chunk_count |-> IF st.current_batch # <<>> THEN 0
                                  ELSE st.current_chunk_count]
    ELSE IF (st.current_chunk_count + chunk_count) * 10
                > TARGET_CHUNKS_PER_BATCH * 12
    THEN [batches |-> IF st.current_batch # <<>>
                      THEN Append(st.batches, st.current_batch)
                      ELSE st.batches,
          current_batch |-> <<item_data>>,
          current_chunk_count |-> chunk_count]
    ELSE [batches |-> st.batches,
          current_batch |-> Append(st.current_batch, item_data),
          current_chunk_count |-> st.current_chunk_count + chunk_count]

RECURSIVE BatchLoop(_, _)
BatchLoop(st, items) ==
    IF items = <<>> THEN st
    ELSE BatchLoop(BatchStep(st, Head(items)), Tail(items))

\* FlushRemaining with the trailing batch forgotten
FlushRemainingDropped(st) ==
    st.batches

FlushRemaining(st) ==
    IF st.current_batch # <<>>
    THEN Append(st.batches, st.current_batch)
    ELSE st.batches

CreateSmartBatches(items) ==
    FlushRemaining(BatchLoop([batches |-> <<>>, current_batch |-> <<>>,
                              current_chunk_count |-> 0], items))

\* the items of a list of chunk counts, identified by their position
AsItems(chunks) ==
    [i \in DOMAIN chunks |-> [id |-> i, chunks |-> chunks[i]]]

----------------------------------------------------------------------------
(* Python floats.  job totals are accumulated in floats (total = 0.0;      *)
(* total += value): IEEE-754 doubles, 53 bits of mantissa, every sum       *)
(* rounded to nearest, ties to the even mantissa.  A number is             *)
(* [hi, lo] = hi * 2^53 + lo with 0 <= lo far below 2^53, which covers     *)
(* the small integers, 2^53 and their sums; on these numbers FloatAdd is   *)
(* the double addition.                                                    *)

FloatZero == [hi |-> 0, lo |-> 0]

\* spacing of the doubles in the binade of hi * 2^53 (hi >= 1)
RECURSIVE Ulp(_)
Ulp(hi) ==
    IF hi <= 1 THEN 2 ELSE 2 * Ulp(hi \div 2)

\* the double nearest to hi * 2^53 + lo, ties to even
RoundToDouble(hi, lo) ==
    IF hi = 0 THEN [hi |-> 0, lo |-> lo]
    ELSE LET u == Ulp(hi)
             q == lo \div u
             r == lo % u
         IN  IF 2 * r < u \/ (2 * r = u /\ q % 2 = 0)
             THEN [hi |-> hi, lo |-> q * u]
             ELSE [hi |-> hi, lo |-> (q + 1) * u]

FloatAdd(x, y) ==
    RoundToDouble(x.hi + y.hi, x.lo + y.lo)

----------------------------------------------------------------------------
(* _calculate_aggregation, the branch of the intents aggregation and       *)
(* filtered_aggregation (lines 498-556).  A map result is [relevant,       *)
(* extracted_data]; an extracted entry is [value, category, date] with     *)
(* category "absent" for an entry without the key and date.present FALSE   *)
(* for an entry without a date; date[:7] is the month of the date.         *)

AggIntents == {"aggregation", "filtered_aggregation"}

\* lines 501-504
AllExtracted(results) ==
    Flatten([i \in DOMAIN results |->
                IF results[i].relevant /\ results[i].extracted_data # <<>>
                THEN results[i].extracted_data
                ELSE <<>>])

\* lines 523-526, 531-534: one more entry of value under key in a dict of
\* {"count", "total"}
Tally(dict, key, value) ==
    [k \in DOMAIN dict \cup {key} |->
        IF k = key
        THEN IF key \in DOMAIN dict
             THEN [count |-> dict[key].count + 1,
                   total |-> FloatAdd(dict[key].total, value)]
             ELSE [count |-> 1, total |-> FloatAdd(FloatZero, value)]
        ELSE dict[k]]

\* lines 514-534: the loop body
AggStep(acc, item) ==
    LET value == item.value
        category == IF item.category = "absent" THEN "uncategorized"
                    ELSE item.category
    IN  [total |-> FloatAdd(acc.total, value),
         count |-> acc.count + 1,
         by_category |-> Tally(acc.by_category, category, value),
         by_month |-> IF item.date.present
                      THEN Tally(acc.by_month, item.date.month, value)
                      ELSE acc.by_month]

RECURSIVE AggLoop(_, _)
AggLoop(acc, items) ==
    IF items = <<>> THEN acc
    ELSE AggLoop(AggStep(acc, Head(items)), Tail(items))

\* line 551: total / count if count > 0 else 0.  The quotient is kept as
\* the pair [num, den], standing for the double nearest to num / den; the
\* value 0 of an empty aggregation is the pair of zero and 1.
Average(total, count) ==
    IF count > 0 THEN [num |-> total, den |-> count]
    ELSE [num |-> FloatZero, den |-> 1]

NumericSummary(acc) ==
    [total |-> acc.total,
     count |-> acc.count,
     average |-> Average(acc.total, acc.count),
     by_category |-> acc.by_category,
     by_month |-> acc.by_month]

\* lines 558-572: the branch of full_folder_summary.  list(set(all_themes))
\* has no defined order, so themes is kept as the set of the themes.
ThemeSummary(results) ==
    [themes |-> {t \in UNION {{results[i].themes[j] :
                                  j \in DOMAIN results[i].themes} :
                              i \in {k \in DOMAIN results :
                                        results[k].relevant}} : TRUE},
     key_points |-> Flatten([i \in DOMAIN results |->
                                IF results[i].relevant
                                THEN results[i].key_points ELSE <<>>]),
     total_items |-> SumSeq([i \in DOMAIN results |->
                                results[i].item_count])]

CalculateAggregation(results, intent_type) ==
    IF intent_type \in AggIntents
    THEN NumericSummary(AggLoop([total |-> FloatZero, count |-> 0,
                                 by_category |-> <<>>, by_month |-> <<>>],
                                AllExtracted(results)))
    ELSE ThemeSummary(results)

----------------------------------------------------------------------------
(* _calculate_confidence and _build_aggregation_details (lines 647-697).   *)
(* The error of a map result is "absent" for a result without the key,     *)
(* otherwise the message; r.get("error") is falsy for both "absent" and    *)
(* the empty message.  A confidence is kept in hundredths, which is what   *)
(* round(confidence, 2) leaves of it.                                      *)

HasError(r) == r.error \notin {"absent", ""}

\* aggregation_summary.get(key): 0 stands for the None of a missing key of
\* count, FloatZero and the zero quotient for those of total and average
SummaryGet(summary, key, default) ==
    IF key \in DOMAIN summary THEN summary[key] ELSE default

\* round(x, 2) of x = num / den (den > 0) in hundredths, for the two
\* products the code forms: (1.0 - f/t), whose ties x.xx5 are exact doubles
\* and go to the even hundredth, and (1.0 - f/t) * 0.7, whose ties fall
\* just below x.xx5 in doubles for every t < 20 and go down.
Round2(num, den, scaled) ==
    LET q == num \div den
        r == num % den
    IN  IF 2 * r < den THEN q
        ELSE IF 2 * r > den THEN q + 1
        ELSE IF scaled THEN q
        ELSE IF q % 2 = 0 THEN q ELSE q + 1

\* lines 676-697
CalculateConfidence(results, summary) ==
    LET n_total == Len(results)
        n_failed ==
            Cardinality({i \in DOMAIN results : HasError(results[i])})
        items_found == SummaryGet(summary, "count", 0)
    IN  IF n_failed = n_total THEN 0
        ELSE IF items_found < 5
             THEN Round2(70 * (n_total - n_failed),
                         n_total, TRUE)
             ELSE Round2(100 * (n_total - n_failed),
                         n_total, FALSE)

\* lines 647-674 (top_items left out)
BuildAggregationDetails(results, summary, n_items, intent_type) ==
    [summary |->
        [total |-> SummaryGet(summary, "total", FloatZero),
         count |-> SummaryGet(summary, "count", 0),
         average |-> SummaryGet(summary, "average",
                                [num |-> FloatZero, den |-> 1]),
         by_category |-> SummaryGet(summary, "by_category", <<>>),
         by_month |-> SummaryGet(summary, "by_month", <<>>)],
     processing_info |->
        [total_items_in_folder |-> n_items,
         items_processed |->
            Cardinality({i \in DOMAIN results : results[i].relevant}),
         items_skipped |->
            Cardinality({i \in DOMAIN results : ~results[i].relevant}),
         batches_processed |->
            Cardinality({i \in DOMAIN results : ~HasError(results[i])}),
         batches_failed |->
            Cardinality({i \in DOMAIN results : HasError(results[i])}),
         strategy |-> intent_type],
     confidence |-> CalculateConfidence(results, summary)]

----------------------------------------------------------------------------
(* Shapes of map results: what a batch task returns and what stands in    *)
(* for a batch that failed.                                               *)

AllIntents == AggIntents \cup {"full_folder_summary"}

\* a relevant map result that found n items
Found(n) ==
    [relevant |-> TRUE, error |-> "absent",
     extracted_data |-> [i \in 1..n |->
         [value |-> [hi |-> 0, lo |-> 1], category |-> "food",
          date |-> [present |-> FALSE, month |-> "", day |-> 0]]],
     themes |-> <<"travel">>, key_points |-> <<"booked">>,
     item_count |-> n]

NotRelevant ==
    [relevant |-> FALSE, error |-> "absent", extracted_data |-> <<>>,
     themes |-> <<>>, key_points |-> <<>>, item_count |-> 2]

\* the answer {"relevant": false, "reason": ...} as the .get calls of
\* lines 503, 564-571 and 666-669 read it: every other key at its default
Irrelevant ==
    [relevant |-> FALSE, error |-> "absent", extracted_data |-> <<>>,
     themes |-> <<>>, key_points |-> <<>>, item_count |-> 0]

\* lines 315-319: the stand-in of a failed batch, error = str(exception)
Placeholder(msg) ==
    [relevant |-> FALSE, error |-> msg, extracted_data |-> <<>>,
     themes |-> <<>>, key_points |-> <<>>, item_count |-> 0]

----------------------------------------------------------------------------
(* The row of the job in the table ProcessingJob, and the sessions.        *)
(* process_query and cancel_job hold the job in sessions of their own      *)
(* (database.py lines 85-88, expire_on_commit False): a session reads the  *)
(* row when it loads the job, and a commit that returns writes to the row  *)
(* the attributes the session has assigned since its last commit; a commit *)
(* that raises writes nothing.  A row is [exists, user_id, status,         *)
(* completed_at], with exists FALSE for a job_id db.get finds no row for;  *)
(* completed_at is 0 while it is None, 1 for a time process_query wrote    *)
(* and 2 or more for the time a request to cancel_job wrote.  A request    *)
(* is [user_id, pc, job, status_code]: pc is "get" while db.get (chat.py   *)
(* line 236) is awaited, "commit" while db.commit (line 249) is, then      *)
(* "done"; job is the job as the request's session holds it; status_code   *)
(* is the HTTP status of the answer, 0 before.                             *)

\* requests served in a run of the cancel model
MaxRequests == 3

Users == {"owner", "other"}

JobStatuses == {"queued", "processing"} \cup Terminal

NoRow == [exists |-> FALSE, user_id |-> "", status |-> "", completed_at |-> 0]

JobRows ==
    {NoRow} \cup [exists : {TRUE}, user_id : {"owner"}, status : JobStatuses,
                  completed_at : {0, 1}]

\* lines 238-248: the request of user_id on the job as db.get returned it,
\* at time now: the status it is refused with, or 200 and the job as the
\* request's session holds it when the commit of line 249 is awaited
CancelJobOn(job, user_id, now) ==
    IF ~job.exists
    THEN [status_code |-> 404, job |-> job]
    ELSE IF job.user_id # user_id
    THEN [status_code |-> 403, job |-> job]
    ELSE IF job.status \in {"completed", "failed", "cancelled"}
    THEN [status_code |-> 400, job |-> job]
    ELSE [status_code |-> 200,
          job |-> [job EXCEPT !.status = "cancelled", !.completed_at = now]]

\* the row of a job just created
QueuedRow ==
    [exists |-> TRUE, user_id |-> "owner", status |-> "queued",
     completed_at |-> 0]

\* lines 59, 115, 140: a time process_query wrote to completed_at
ProcessTime == 1

\* the time at which a request passes line 236: later than every time
\* written before
Now == 2 + Cardinality({k \in DOMAIN requests : requests[k].pc # "get"})

\* a commit of process_query returns: status and completed_at go to the
\* row where process_query has assigned them since the last commit that
\* returned (lines 43, 53-59, 112-115, 134-140)
Flushed(r) ==
    [r EXCEPT !.status = status,
              !.completed_at = IF completed_at # 0 THEN completed_at ELSE @]

\* DELETE /jobs/{job_id} arrives: db.get is awaited
NewRequest(user_id) ==
    [user_id |-> user_id, pc |-> "get", job |-> NoRow, status_code |-> 0]

\* line 236 returns the row r to request q; lines 238-249
GetReturned(q, r, now) ==
    LET answer == CancelJobOn(r, q.user_id, now) IN
    IF answer.status_code = 200
    THEN [q EXCEPT !.pc = "commit", !.job = answer.job]
    ELSE [q EXCEPT !.pc = "done", !.job = r,
                   !.status_code = answer.status_code]

\* line 249 returns: what the commit of request q leaves of the row r
Written(r, q) ==
    [r EXCEPT !.status = q.job.status, !.completed_at = q.job.completed_at]

----------------------------------------------------------------------------
(* The job before process_query runs on it.  The ProcessingJob table and   *)
(* the code creating the job are not part of the sources: a new job is     *)
(* queued, with its counters at 0; started_at is a field of the job that   *)
(* no code of the sources assigns.                                         *)

StartedAts == {"none", "set"}

\* a queued job with started_at started and the row r, no request made
QueuedJob(started, r) ==
    /\ started_at = started
    /\ completed_at = 0
    /\ row = r
    /\ requests = <<>>
    /\ status = "queued"
    /\ current_phase = "none"
    /\ total_items = 0
    /\ total_batches = 0
    /\ processed_batches = 0
    /\ failed_batches = 0
    /\ result = "none"
    /\ error_message = "none"
    /\ error_phase = "none"
    /\ pc = "idle"
    /\ items_with_chunks = <<>>
    /\ context_count = 0
    /\ batch_len = <<>>
    /\ task = <<>>
    /\ permits = 0
    /\ map_results = <<>>
    /\ reduce_calls = 0
    /\ intent = "none"
    /\ aggregation_details = <<>>
    /\ processed_items = 0
    /\ progress = Fraction(0, 1)

JobInit == QueuedJob("set", QueuedRow)

\* no function model is running
FnIdle ==
    /\ fn_pc = "idle"
    /\ fn_input = <<>>
    /\ fn_output = <<>>

Init ==
    /\ \E started \in StartedAts : QueuedJob(started, QueuedRow)
    /\ pool = EmptyBag
    /\ FnIdle

----------------------------------------------------------------------------
(* process_query.                                                          *)

\* HandleException with the phase reset by the except clause
HandleExceptionResetsPhase(msg) ==
    /\ status' = "failed"
    /\ completed_at' = ProcessTime
    /\ error_message' = msg
    /\ error_phase' = current_phase
    /\ current_phase' = "initialization"
    /\ pc' = "commit_failed"

\* HandleException without the phase in error_details
HandleExceptionPhaseUnrecorded(msg) ==
    /\ status' = "failed"
    /\ completed_at' = ProcessTime
    /\ error_message' = msg
    /\ error_phase' = error_phase
    /\ current_phase' = current_phase
    /\ pc' = "commit_failed"

\* the except clause of process_query (lines 132-142), up to its commit
HandleException(msg) ==
    /\ status' = "failed"
    /\ completed_at' = ProcessTime
    /\ error_message' = msg
    /\ error_phase' = current_phase
    /\ current_phase' = current_phase
    /\ pc' = "commit_failed"

\* lines 41-45
StartProcessQuery ==
    /\ pc = "idle"
    /\ status' = "processing"
    /\ current_phase' = "initialization"
    /\ pc' = "commit_start"
    /\ UNCHANGED <<total_items, total_batches, processed_batches,
                   failed_batches, result, error_message, error_phase,
                   items_with_chunks, context_count, batch_len, task,
                   permits, map_results, reduce_calls, row, others>>

\* line 45 returns and writes status processing to the row; line 48
\* awaits the fetch
CommitStartOk ==
    /\ pc = "commit_start"
    /\ pc' = "fetch"
    /\ row' = Flushed(row)
    /\ UNCHANGED <<status, current_phase, total_items, total_batches,
                   processed_batches, failed_batches, result, error_message,
                   error_phase, items_with_chunks, context_count, batch_len,
                   task, permits, map_results, reduce_calls, others>>

\* the run is one the model follows in full
Detailed == total_items <= MaxDetailItems

\* the lists the fetch returns: at most MaxDetailItems items to a job
\* without started_at or with a request to cancel_job made
Fetchable ==
    IF started_at = "none" \/ requests # <<>>
    THEN {items \in JobItemLists : Len(items) <= MaxDetailItems}
    ELSE JobItemLists

\* lines 48-64: the fetch returns; an empty list ends the run
FetchReturns ==
    /\ pc = "fetch"
    /\ \E fetched \in Fetchable :
          /\ items_with_chunks' = fetched
          /\ IF fetched = <<>>
             THEN /\ status' = "completed"
                  /\ result' = "empty_folder"
                  /\ completed_at' = ProcessTime
                  /\ pc' = "commit_empty"
                  /\ UNCHANGED total_items
             ELSE /\ total_items' = Len(fetched)
                  /\ pc' = "commit_items"
                  /\ UNCHANGED <<status, result, completed_at>>
    /\ UNCHANGED <<current_phase, total_batches, processed_batches,
                   failed_batches, error_message, error_phase, context_count,
                   batch_len, task, permits, map_results, reduce_calls, row,
                   carried>>

\* line 48 raises
FetchRaises ==
    /\ pc = "fetch"
    /\ HandleException("fetch")
    /\ UNCHANGED <<total_items, total_batches, processed_batches,
                   failed_batches, result, items_with_chunks, context_count,
                   batch_len, task, permits, map_results, reduce_calls,
                   row, carried>>

\* CommitEmptyOk without the return: the empty list goes on to be batched
CommitEmptyOkFallsThrough ==
    /\ pc = "commit_empty"
    /\ pc' = "commit_items"
    /\ row' = Flushed(row)
    /\ UNCHANGED <<status, current_phase, total_items, total_batches,
                   processed_batches, failed_batches, result, error_message,
                   error_phase, items_with_chunks, context_count, batch_len,
                   task, permits, map_results, reduce_calls, others>>

\* line 60 returns: return job.result
CommitEmptyOk ==
    /\ pc = "commit_empty"
    /\ pc' = "returned"
    /\ row' = Flushed(row)
    /\ UNCHANGED <<status, current_phase, total_items, total_batches,
                   processed_batches, failed_batches, result, error_message,
                   error_phase, items_with_chunks, context_count, batch_len,
                   task, permits, map_results, reduce_calls, others>>

\* lines 73-77: batches of the items in hand
MakeBatches(items) ==
    LET batches == CreateSmartBatches(AsItems(items)) IN
    /\ batch_len' = [b \in DOMAIN batches |-> Len(batches[b])]
    /\ total_batches' = Len(batches)
    /\ context_count' = Len(items)
    /\ items_with_chunks' = <<>>
    /\ current_phase' = "map"
    /\ pc' = "commit_batches"

\* line 64 returns; lines 66-77: with a semantic filter the filter call is
\* awaited, without one the batches are made at once
CommitItemsOk ==
    /\ pc = "commit_items"
    /\ \E semantic_filter \in BOOLEAN :
          IF semantic_filter
          THEN /\ pc' = "filter"
               /\ UNCHANGED <<current_phase, total_batches,
                              items_with_chunks, context_count, batch_len>>
          ELSE MakeBatches(items_with_chunks)
    /\ UNCHANGED <<status, total_items, processed_batches, failed_batches,
                   result, error_message, error_phase, task, permits,
                   map_results, reduce_calls, row, others>>

\* _apply_semantic_filter keeps the items scoring at least the threshold,
\* sorted by score: any sub-collection of the items, in any order
FilterOutcomes(items) ==
    {kept \in JobItemLists :
        \A c \in JobChunks : CountOf(kept, c) <= CountOf(items, c)}

\* lines 68-77: the filter returns
FilterReturns ==
    /\ pc = "filter"
    /\ \E kept \in FilterOutcomes(items_with_chunks) : MakeBatches(kept)
    /\ UNCHANGED <<status, total_items, processed_batches, failed_batches,
                   result, error_message, error_phase, task, permits,
                   map_results, reduce_calls, row, others>>

\* line 68 raises (the embedding call)
FilterRaises ==
    /\ pc = "filter"
    /\ HandleException("filter")
    /\ UNCHANGED <<total_items, total_batches, processed_batches,
                   failed_batches, result, items_with_chunks, context_count,
                   batch_len, task, permits, map_results, reduce_calls,
                   row, carried>>

----------------------------------------------------------------------------
(* _map_phase and the batch tasks (process_batch_with_semaphore around     *)
(* _process_map_batch).  A task is [pc, attempt, calls, returns, fails,    *)
(* error, response]:                                                       *)
(*   pc      "new" before it holds the semaphore, "call" while its         *)
(*           completion call is in flight, "commit" while its progress     *)
(*           commit is in flight, "sleep" in the retry backoff, then "ok"  *)
(*           (returned a result) or "fail" (raised);                       *)
(*   attempt the loop variable of the retry loop;                          *)
(*   calls   completion calls issued so far;                               *)
(*   returns calls that returned a result (lines 364-373 ran);             *)
(*   fails   attempts that ended in the except clause;                     *)
(*   error   str() of the exception the task raised, "absent" before;      *)
(*   response <<result>> for the object of line 362 of the last call that  *)
(*           returned one, <<>> before.                                    *)
(* The job model keeps one task per batch index in task.  The wide model   *)
(* of the map phase (SpecWide) runs the same steps on more batches than    *)
(* the semaphore has permits and keeps the tasks as a bag, pool: tasks in  *)
(* the same state are interchangeable there.                               *)

NewTask ==
    [pc |-> "new", attempt |-> 0, calls |-> 0, returns |-> 0, fails |-> 0,
     error |-> "absent", response |-> <<>>]

\* str(e) of what an attempt can raise before line 371: the messages of
\* generate_completion (embeddings.py lines 172, 179), the empty string of
\* a transport exception without a message, re-raised as it is (lines
\* 180-182), the message of json.loads (line 362) for a text that is no
\* JSON and that of line 367 for a text that is a JSON list
CallErrors ==
    {"Chat completion timed out",
     "Chat completion API error: 500",
     "",
     "Expecting value: line 1 column 1 (char 0)",
     "list indices must be integers or slices, not str"}

\* the two of them followed in the runs on more than MaxDetailItems items
PlainErrors == {"Chat completion timed out", ""}

AttemptErrors == IF Detailed THEN CallErrors ELSE PlainErrors

\* the objects a completion call answers with for a batch of n items:
\* relevant with k of the items extracted, or not relevant
MapResponses(n) ==
    IF Detailed
    THEN {Found(k) : k \in 0..n} \cup {Irrelevant}
    ELSE {Found(n)}

\* str(e) of a progress commit that raises
CommitErrors == {"commit"}

\* line 386: the exception of the last attempt leaves the task
Raised(t, msg) ==
    IF t.pc = "fail" THEN [t EXCEPT !.error = msg] ELSE t

Batches == DOMAIN task

TaskDone(i) == task[i].pc \in {"ok", "fail"}

\* CanAcquire off by one: a task is let in with no permit left
CanAcquireOffByOne == permits >= 0

\* line 294: `async with semaphore` lets a task in while a permit is free
CanAcquire == permits > 0

\* lines 343-356: the task issues a completion call
Started(t) ==
    [t EXCEPT !.pc = "call", !.calls = @ + 1]

\* lines 362-379: the call returned the JSON object response and the
\* counter became processed; every fifth value is committed before the
\* task returns
Returned(t, processed, response) ==
    [t EXCEPT !.pc = IF processed % COMMIT_EVERY = 0 THEN "commit" ELSE "ok",
              !.returns = @ + 1,
              !.response = <<response>>]

\* lines 381-386: the except clause of an attempt: back off and retry, or
\* re-raise after the last attempt
Excepted(t) ==
    IF t.attempt < MAP_RETRY_ATTEMPTS - 1
    THEN [t EXCEPT !.pc = "sleep", !.fails = @ + 1]
    ELSE [t EXCEPT !.pc = "fail", !.fails = @ + 1]

\* lines 377-379: the progress commit returned
Committed(t) ==
    [t EXCEPT !.pc = "ok"]

\* Retried for a backoff that is never over
RetriedStaysAsleep(t) ==
    [t EXCEPT !.pc = "sleep"]

\* lines 384, 349-356: the backoff is over, the next attempt issues its call
Retried(t) ==
    [t EXCEPT !.pc = "call", !.attempt = @ + 1, !.calls = @ + 1]

\* lines 294-297: the permit is held from the acquire until the task
\* returns or raises; Released is 1 for the step that ends the task
Released(t) ==
    IF t.pc \in {"ok", "fail"} THEN 1 ELSE 0

\* line 77 returns; lines 82, 291-306: the semaphore and the tasks are
\* created and gather is awaited
CommitBatchesOk ==
    /\ pc = "commit_batches"
    /\ task' = [i \in 1..total_batches |-> NewTask]
    /\ permits' = MAX_CONCURRENT_MAP_CALLS
    /\ pc' = "gather"
    /\ UNCHANGED <<status, current_phase, total_items, total_batches,
                   processed_batches, failed_batches, result, error_message,
                   error_phase, items_with_chunks, context_count, batch_len,
                   map_results, reduce_calls, row, others>>

\* lines 294-295, 343-356: the task takes a permit and issues its first call
TaskStart(i) ==
    /\ task[i].pc = "new"
    /\ CanAcquire
    /\ permits' = permits - 1
    /\ task' = [task EXCEPT ![i] = Started(@)]
    /\ UNCHANGED <<status, current_phase, total_items, total_batches,
                   processed_batches, failed_batches, result, error_message,
                   error_phase, pc, items_with_chunks, context_count,
                   batch_len, map_results, reduce_calls, row, others>>

\* lines 356-379: the call returns text that parses to an object
CallReturns(i) ==
    /\ task[i].pc = "call"
    /\ processed_batches' = processed_batches + 1
    /\ processed_items' = processed_items + batch_len[i]
    /\ progress' = MapProgress(processed_batches + 1, total_batches)
    /\ \E response \in MapResponses(batch_len[i]) :
          task' = [task EXCEPT
                      ![i] = Returned(@, processed_batches + 1, response)]
    /\ permits' = permits + Released(task'[i])
    /\ UNCHANGED <<status, current_phase, total_items, total_batches,
                   failed_batches, result, error_message, error_phase, pc,
                   items_with_chunks, context_count, batch_len, map_results,
                   reduce_calls, intent, aggregation_details, completed_at,
                   row, fixed>>

\* lines 356-367 raise (the call fails, or its text is no JSON object)
CallRaises(i) ==
    /\ task[i].pc = "call"
    /\ \E msg \in AttemptErrors :
          task' = [task EXCEPT ![i] = Raised(Excepted(@), msg)]
    /\ permits' = permits + Released(task'[i])
    /\ UNCHANGED <<status, current_phase, total_items, total_batches,
                   processed_batches, failed_batches, result, error_message,
                   error_phase, pc, items_with_chunks, context_count,
                   batch_len, map_results, reduce_calls, row, others>>

\* line 377 returns; line 379
BatchCommitOk(i) ==
    /\ task[i].pc = "commit"
    /\ task' = [task EXCEPT ![i] = Committed(@)]
    /\ permits' = permits + Released(task'[i])
    /\ UNCHANGED <<status, current_phase, total_items, total_batches,
                   processed_batches, failed_batches, result, error_message,
                   error_phase, pc, items_with_chunks, context_count,
                   batch_len, map_results, reduce_calls, row, others>>

\* line 377 raises, inside the try of the attempt
BatchCommitRaises(i) ==
    /\ task[i].pc = "commit"
    /\ \E msg \in CommitErrors :
          task' = [task EXCEPT ![i] = Raised(Excepted(@), msg)]
    /\ permits' = permits + Released(task'[i])
    /\ UNCHANGED <<status, current_phase, total_items, total_batches,
                   processed_batches, failed_batches, result, error_message,
                   error_phase, pc, items_with_chunks, context_count,
                   batch_len, map_results, reduce_calls, row, others>>

\* line 384 returns; the loop issues the next call (lines 349-356)
SleepDone(i) ==
    /\ task[i].pc = "sleep"
    /\ task' = [task EXCEPT ![i] = Retried(@)]
    /\ UNCHANGED <<status, current_phase, total_items, total_batches,
                   processed_batches, failed_batches, result, error_message,
                   error_phase, pc, items_with_chunks, context_count,
                   batch_len, permits, map_results, reduce_calls, row, others>>

\* GatherDone for a wait that returns with the first finished task
GatherDoneFirstCompleted ==
    \/ Batches = {}
    \/ \E i \in Batches : task[i].pc \in {"ok", "fail"}

\* asyncio.gather(*tasks, return_exceptions=True) returns when every task
\* has returned or raised
GatherDone == \A i \in Batches : TaskDone(i)

\* lines 310-321: what stands in map_results for batch i, whose task is
\* t: the placeholder with str(result) for a task that raised, otherwise
\* the object the task returned, with the batch metadata of lines 367-368;
\* batch i is batch_idx i - 1
TaskResult(t, i) ==
    IF t.pc = "ok"
    THEN [batch_index |-> i - 1, items_in_batch |-> batch_len[i]]
             @@ t.response[1]
    ELSE [batch_index |-> i - 1] @@ Placeholder(t.error)

MapResult(i) == TaskResult(task[i], i)

\* GatherReturns counting every batch that had a failed attempt
GatherReturnsCountsRetried ==
    /\ pc = "gather"
    /\ GatherDone
    /\ map_results' = [i \in Batches |-> MapResult(i)]
    /\ failed_batches' = failed_batches
                           + Cardinality({i \in Batches : task[i].fails > 0})
    /\ pc' = "commit_map"
    /\ UNCHANGED <<status, current_phase, total_items, total_batches,
                   processed_batches, result, error_message, error_phase,
                   items_with_chunks, context_count, batch_len, task,
                   permits, reduce_calls, row, others>>

\* lines 306-323: gather returns, the failures are counted and replaced
\* by placeholders
GatherReturns ==
    /\ pc = "gather"
    /\ GatherDone
    /\ map_results' = [i \in Batches |-> MapResult(i)]
    /\ failed_batches' = failed_batches
                           + Cardinality({i \in Batches : task[i].pc = "fail"})
    /\ pc' = "commit_map"
    /\ UNCHANGED <<status, current_phase, total_items, total_batches,
                   processed_batches, result, error_message, error_phase,
                   items_with_chunks, context_count, batch_len, task,
                   permits, reduce_calls, row, others>>

\* CommitMapOk raising as soon as one batch has failed
CommitMapOkAnyFailure ==
    /\ pc = "commit_map"
    /\ IF failed_batches > 0 \/ failed_batches = total_batches
       THEN /\ HandleException("All batches failed to process")
            /\ UNCHANGED progress
       ELSE /\ current_phase' = "reduce"
            /\ progress' = ReduceProgress
            /\ pc' = "commit_reduce"
            /\ UNCHANGED <<status, error_message, error_phase, completed_at>>
    /\ UNCHANGED <<total_items, total_batches, processed_batches,
                   failed_batches, result, items_with_chunks, context_count,
                   batch_len, task, permits, map_results, reduce_calls,
                   intent, aggregation_details, processed_items, row,
                   fixed>>

\* CommitMapOk taking a job without batches as one that has not failed
CommitMapOkUnlessNoBatches ==
    /\ pc = "commit_map"
    /\ IF failed_batches = total_batches /\ total_batches > 0
       THEN /\ HandleException("All batches failed to process")
            /\ UNCHANGED progress
       ELSE /\ current_phase' = "reduce"
            /\ progress' = ReduceProgress
            /\ pc' = "commit_reduce"
            /\ UNCHANGED <<status, error_message, error_phase, completed_at>>
    /\ UNCHANGED <<total_items, total_batches, processed_batches,
                   failed_batches, result, items_with_chunks, context_count,
                   batch_len, task, permits, map_results, reduce_calls,
                   intent, aggregation_details, processed_items, row,
                   fixed>>

\* line 323 returns; lines 326-329, 87-90
CommitMapOk ==
    /\ pc = "commit_map"
    /\ IF failed_batches = total_batches
       THEN /\ HandleException("All batches failed to process")
            /\ UNCHANGED progress
       ELSE /\ current_phase' = "reduce"
            /\ progress' = ReduceProgress
            /\ pc' = "commit_reduce"
            /\ UNCHANGED <<status, error_message, error_phase, completed_at>>
    /\ UNCHANGED <<total_items, total_batches, processed_batches,
                   failed_batches, result, items_with_chunks, context_count,
                   batch_len, task, permits, map_results, reduce_calls,
                   intent, aggregation_details, processed_items, row,
                   fixed>>

\* line 90 returns; lines 93-100: the aggregation returns.  The intent
\* type of the query, an argument of process_query, takes its value in
\* the model here, where process_query first branches on it (line 93,
\* lines 498 and 506).
CommitReduceOk ==
    /\ pc = "commit_reduce"
    /\ intent' \in AllIntents
    /\ current_phase' = "synthesis"
    /\ progress' = SynthesisProgress
    /\ pc' = "commit_synthesis"
    /\ UNCHANGED <<status, total_items, total_batches, processed_batches,
                   failed_batches, result, error_message, error_phase,
                   items_with_chunks, context_count, batch_len, task,
                   permits, map_results, reduce_calls, aggregation_details,
                   processed_items, completed_at, row, fixed>>

\* line 90 returns; line 93: _calculate_aggregation raises (a value that
\* is no number, extracted_data that is no list of objects)
AggregationRaises ==
    /\ pc = "commit_reduce"
    /\ HandleException("aggregation")
    /\ UNCHANGED <<total_items, total_batches, processed_batches,
                   failed_batches, result, items_with_chunks, context_count,
                   batch_len, task, permits, map_results, reduce_calls,
                   row, carried>>

\* line 100 returns; lines 102, 584-597: the reduce call is issued
CommitSynthesisOk ==
    /\ pc = "commit_synthesis"
    /\ reduce_calls' = reduce_calls + 1
    /\ pc' = "reduce_call"
    /\ UNCHANGED <<status, current_phase, total_items, total_batches,
                   processed_batches, failed_batches, result, error_message,
                   error_phase, items_with_chunks, context_count, batch_len,
                   task, permits, map_results, row, others>>

\* str(e) of line 117 on a job without started_at
DurationError ==
    "unsupported operand type(s) for -: 'datetime.datetime' and 'NoneType'"

\* ReduceCallReturns leaving the progress of the synthesis
ReduceCallReturnsProgressUnset ==
    /\ pc = "reduce_call"
    /\ current_phase' = "complete"
    /\ completed_at' = ProcessTime
    /\ IF started_at = "none"
       THEN /\ status' = "failed"
            /\ error_message' = DurationError
            /\ error_phase' = "complete"
            /\ pc' = "commit_failed"
            /\ UNCHANGED <<result, aggregation_details>>
       ELSE /\ status' = "completed"
            /\ result' = "final"
            /\ aggregation_details' =
                  <<BuildAggregationDetails(
                        map_results,
                        CalculateAggregation(map_results, intent),
                        context_count, intent)>>
            /\ pc' = "commit_complete"
            /\ UNCHANGED <<error_message, error_phase>>
    /\ UNCHANGED <<total_items, total_batches, processed_batches,
                   failed_batches, items_with_chunks, context_count,
                   batch_len, task, permits, map_results, reduce_calls,
                   intent, processed_items, progress, row, fixed>>

\* lines 102-128: the reduce call returns.  Lines 112-115 set status
\* completed, phase complete, progress 1.0 and completed_at; line 117
\* subtracts started_at from completed_at and raises TypeError on a job
\* whose started_at is None, before result and aggregation_details are
\* assigned (lines 126-127): the except clause then runs (lines 132-141).
ReduceCallReturns ==
    /\ pc = "reduce_call"
    /\ current_phase' = "complete"
    /\ progress' = CompleteProgress
    /\ completed_at' = ProcessTime
    /\ IF started_at = "none"
       THEN /\ status' = "failed"
            /\ error_message' = DurationError
            /\ error_phase' = "complete"
            /\ pc' = "commit_failed"
            /\ UNCHANGED <<result, aggregation_details>>
       ELSE /\ status' = "completed"
            /\ result' = "final"
            /\ aggregation_details' =
                  <<BuildAggregationDetails(
                        map_results,
                        CalculateAggregation(map_results, intent),
                        context_count, intent)>>
            /\ pc' = "commit_complete"
            /\ UNCHANGED <<error_message, error_phase>>
    /\ UNCHANGED <<total_items, total_batches, processed_batches,
                   failed_batches, items_with_chunks, context_count,
                   batch_len, task, permits, map_results, reduce_calls,
                   intent, processed_items, row, fixed>>

\* line 102 raises
ReduceCallRaises ==
    /\ pc = "reduce_call"
    /\ HandleException("reduce")
    /\ UNCHANGED <<total_items, total_batches, processed_batches,
                   failed_batches, result, items_with_chunks, context_count,
                   batch_len, task, permits, map_results, reduce_calls,
                   row, carried>>

\* line 128 returns; line 130
CommitCompleteOk ==
    /\ pc = "commit_complete"
    /\ pc' = "returned"
    /\ row' = Flushed(row)
    /\ UNCHANGED <<status, current_phase, total_items, total_batches,
                   processed_batches, failed_batches, result, error_message,
                   error_phase, items_with_chunks, context_count, batch_len,
                   task, permits, map_results, reduce_calls, others>>

\* the commits awaited inside the try of process_query
\* (lines 45, 60, 64, 77, 323, 90, 100, 128)
TryCommits ==
    {"commit_start", "commit_empty", "commit_items", "commit_batches",
     "commit_map", "commit_reduce", "commit_synthesis", "commit_complete"}

\* one of these commits raises
CommitRaises ==
    /\ pc \in TryCommits
    /\ HandleException("commit")
    /\ UNCHANGED <<total_items, total_batches, processed_batches,
                   failed_batches, result, items_with_chunks, context_count,
                   batch_len, task, permits, map_results, reduce_calls,
                   row, carried>>

\* line 141 returns and writes status failed to the row; line 142
CommitFailedOk ==
    /\ pc = "commit_failed"
    /\ pc' = "raised"
    /\ row' = Flushed(row)
    /\ UNCHANGED <<status, current_phase, total_items, total_batches,
                   processed_batches, failed_batches, result, error_message,
                   error_phase, items_with_chunks, context_count, batch_len,
                   task, permits, map_results, reduce_calls, others>>

\* line 141 raises: process_query raises that exception, the row is left
\* as it was
CommitFailedRaises ==
    /\ pc = "commit_failed"
    /\ pc' = "raised"
    /\ UNCHANGED <<status, current_phase, total_items, total_batches,
                   processed_batches, failed_batches, result, error_message,
                   error_phase, items_with_chunks, context_count, batch_len,
                   task, permits, map_results, reduce_calls, row, others>>

----------------------------------------------------------------------------
(* cancel_job (DELETE /jobs/{job_id}, chat.py lines 227-251), a request    *)
(* served on a session of its own, between any two steps of the job.       *)

\* a request arrives and awaits db.get (line 236); at most limit requests
\* are made
CancelArrives(limit) ==
    /\ Len(requests) < limit
    /\ Detailed
    /\ \E user_id \in Users :
          requests' = Append(requests, NewRequest(user_id))
    /\ UNCHANGED <<runvars, row, pool, fnvars>>

\* line 236 returns; lines 238-249: the request is refused, or sets the
\* job cancelled in its session and awaits the commit
CancelGetReturns(k) ==
    /\ requests[k].pc = "get"
    /\ requests' = [requests EXCEPT ![k] = GetReturned(@, row, Now)]
    /\ UNCHANGED <<runvars, row, pool, fnvars>>

\* line 249 returns: the row is written, the request answered 200 (line 251)
CancelCommitOk(k) ==
    /\ requests[k].pc = "commit"
    /\ row' = Written(row, requests[k])
    /\ requests' = [requests EXCEPT ![k].pc = "done",
                                     ![k].status_code = 200]
    /\ UNCHANGED <<runvars, pool, fnvars>>

\* line 249 raises: nothing is written, the request is answered 500
CancelCommitRaises(k) ==
    /\ requests[k].pc = "commit"
    /\ requests' = [requests EXCEPT ![k].pc = "done",
                                     ![k].status_code = 500]
    /\ UNCHANGED <<runvars, row, pool, fnvars>>

\* the steps of a request on the job
CancelJob ==
    \/ CancelArrives(MaxJobRequests)
    \/ \E k \in DOMAIN requests : CancelGetReturns(k)
    \/ \E k \in DOMAIN requests : CancelCommitOk(k)
    \/ \E k \in DOMAIN requests : CancelCommitRaises(k)

(* cancel_job on its own: MaxRequests requests on a row in any state, no   *)
(* run of process_query beside them.                                       *)

CancelInit ==
    /\ \E r \in JobRows : QueuedJob("set", r)
    /\ pool = EmptyBag
    /\ FnIdle

CancelNext ==
    \/ CancelArrives(MaxRequests)
    \/ \E k \in DOMAIN requests : CancelGetReturns(k)
    \/ \E k \in DOMAIN requests : CancelCommitOk(k)
    \/ \E k \in DOMAIN requests : CancelCommitRaises(k)

SpecCancel == CancelInit /\ [][CancelNext]_vars

----------------------------------------------------------------------------

\* the steps of process_query up to gather, and of its batch tasks
StepsToGather ==
    \/ StartProcessQuery
    \/ CommitStartOk
    \/ FetchReturns
    \/ FetchRaises
    \/ CommitEmptyOk
    \/ CommitItemsOk
    \/ FilterReturns
    \/ FilterRaises
    \/ CommitBatchesOk
    \/ \E i \in Batches : TaskStart(i)
    \/ \E i \in Batches : CallReturns(i)
    \/ \E i \in Batches : CallRaises(i)
    \/ \E i \in Batches : BatchCommitOk(i)
    \/ \E i \in Batches : BatchCommitRaises(i)
    \/ \E i \in Batches : SleepDone(i)

\* the steps of process_query after gather, but for the return of the
\* reduce call, and the commits that raise
StepsFromGather ==
    \/ CommitMapOk
    \/ CommitReduceOk
    \/ AggregationRaises
    \/ CommitSynthesisOk
    \/ ReduceCallRaises
    \/ CommitCompleteOk
    \/ CommitRaises
    \/ CommitFailedOk
    \/ CommitFailedRaises

\* the steps of process_query and of its batch tasks, but for the return
\* of the reduce call
AwaitedSteps ==
    \/ StepsToGather
    \/ GatherReturns
    \/ StepsFromGather

\* the steps of process_query and of its batch tasks
ProcessQueryNext ==
    \/ AwaitedSteps
    \/ ReduceCallReturns

Next ==
    \/ ProcessQueryNext
    \/ CancelJob

Spec == Init /\ [][Next]_vars


----------------------------------------------------------------------------
(* The wide model of the map phase: the job as CommitBatchesOk leaves it   *)
(* for WideBatches batches of one oversize item each, the tasks in pool.   *)

WideInit ==
    /\ status = "processing"
    /\ current_phase = "map"
    /\ total_items = WideBatches
    /\ total_batches = WideBatches
    /\ processed_batches = 0
    /\ failed_batches = 0
    /\ result = "none"
    /\ error_message = "none"
    /\ error_phase = "none"
    /\ pc = "gather"
    /\ items_with_chunks = <<>>
    /\ context_count = WideBatches
    /\ batch_len = [b \in 1..WideBatches |-> 1]
    /\ task = <<>>
    /\ permits = MAX_CONCURRENT_MAP_CALLS
    /\ map_results = <<>>
    /\ reduce_calls = 0
    /\ intent = "none"
    /\ aggregation_details = <<>>
    /\ processed_items = 0
    /\ progress = Fraction(0, 1)
    /\ started_at = "set"
    /\ completed_at = 0
    /\ row = [QueuedRow EXCEPT !.status = "processing"]
    /\ requests = <<>>
    /\ pool = [t \in {NewTask} |-> WideBatches]
    /\ FnIdle

\* one task of pool goes from state t to state t2
Moved(t, t2) ==
    (pool (-) SetToBag({t})) (+) SetToBag({t2})

\* tasks of pool whose pc is in pcs
PoolCount(pcs) ==
    BagCardinality([t \in {u \in BagToSet(pool) : u.pc \in pcs} |-> pool[t]])

\* attempts of the tasks of pool that have raised (lines 381-386)
PoolRaises ==
    BagCardinality([t \in {u \in BagToSet(pool) : u.fails > 0} |->
                       pool[t] * t.fails])

\* what the steps of the pool leave alone
widerest == <<status, current_phase, total_items, total_batches,
              failed_batches, result, error_message, error_phase, pc,
              items_with_chunks, context_count, batch_len, task,
              map_results, reduce_calls, intent, aggregation_details,
              started_at, completed_at, row, requests, fnvars>>

\* TaskStart on a task of pool
PoolStart ==
    \E t \in BagToSet(pool) :
        /\ t.pc = "new"
        /\ CanAcquire
        /\ permits' = permits - 1
        /\ pool' = Moved(t, Started(t))
        /\ UNCHANGED <<processed_batches, processed_items, progress,
                       widerest>>

\* CallReturns on a task of pool
PoolCallReturns ==
    \E t \in BagToSet(pool) :
        /\ t.pc = "call"
        /\ processed_batches' = processed_batches + 1
        /\ processed_items' = processed_items + 1
        /\ progress' = MapProgress(processed_batches + 1, total_batches)
        /\ \E response \in MapResponses(1) :
              /\ pool' = Moved(t, Returned(t, processed_batches + 1,
                                           response))
              /\ permits' = permits
                    + Released(Returned(t, processed_batches + 1, response))
        /\ UNCHANGED widerest

\* CallRaises on a task of pool
PoolCallRaises ==
    \E t \in BagToSet(pool) :
        /\ t.pc = "call"
        /\ \E msg \in AttemptErrors :
              pool' = Moved(t, Raised(Excepted(t), msg))
        /\ permits' = permits + Released(Excepted(t))
        /\ UNCHANGED <<processed_batches, processed_items, progress,
                       widerest>>

\* BatchCommitOk on a task of pool
PoolCommitOk ==
    \E t \in BagToSet(pool) :
        /\ t.pc = "commit"
        /\ pool' = Moved(t, Committed(t))
        /\ permits' = permits + Released(Committed(t))
        /\ UNCHANGED <<processed_batches, processed_items, progress,
                       widerest>>

\* BatchCommitRaises on a task of pool
PoolCommitRaises ==
    \E t \in BagToSet(pool) :
        /\ t.pc = "commit"
        /\ \E msg \in CommitErrors :
              pool' = Moved(t, Raised(Excepted(t), msg))
        /\ permits' = permits + Released(Excepted(t))
        /\ UNCHANGED <<processed_batches, processed_items, progress,
                       widerest>>

\* SleepDone on a task of pool
PoolSleepDone ==
    \E t \in BagToSet(pool) :
        /\ t.pc = "sleep"
        /\ pool' = Moved(t, Retried(t))
        /\ UNCHANGED <<permits, processed_batches, processed_items,
                       progress, widerest>>

WideNext ==
    \/ PoolStart
    \/ PoolCallReturns
    \/ PoolCallRaises
    \/ PoolCommitOk
    \/ PoolCommitRaises
    \/ PoolSleepDone

SpecWide == WideInit /\ [][WideNext]_vars

\* the map phase of WideBatches batches under the scheduling of asyncio:
\* every task that can take a step takes one in the end
SpecWideLive == SpecWide /\ WF_vars(WideNext)

----------------------------------------------------------------------------
(* process_query to its end on the jobs of both models: the queued job of  *)
(* Init, whose tasks are in task, and the job of WideInit, whose tasks     *)
(* are in pool and outnumber the permits.  pool does not keep which batch  *)
(* a task belongs to: any task of pool may be the task of any batch, so    *)
(* gather returns the outcomes of the tasks in any order of the tasks.     *)
(* The wide runs are followed to their end while at most MaxWideRaises    *)
(* attempts of their tasks raise.                                          *)

\* what gather returns for the task t (line 306, return_exceptions=True):
\* the object the task returned or the exception it raised
Outcome(t) ==
    [pc |-> t.pc, response |-> t.response, error |-> t.error]

\* lines 300-306: the tasks are created in the order of the batches and
\* gather returns their outcomes in that order; for the tasks of the bag
\* b, the lists of their outcomes in every order of the tasks
GatherOrders(b) ==
    LET outcomes == {Outcome(t) : t \in BagToSet(b)}
        tasks_with(o) == {t \in BagToSet(b) : Outcome(t) = o}
        all == [o \in outcomes |->
                   BagCardinality([t \in tasks_with(o) |-> b[t]])]
        orders[left \in [outcomes -> 0..BagCardinality(b)]] ==
            IF \A o \in outcomes : left[o] = 0
            THEN {<<>>}
            ELSE UNION {{<<o>> \o rest :
                            rest \in orders[[left EXCEPT ![o] = @ - 1]]} :
                        o \in {x \in outcomes : left[x] > 0}}
    IN  orders[all]

\* asyncio.gather on the tasks of pool: every task has returned or raised
PoolGatherDone ==
    /\ BagToSet(pool) # {}
    /\ \A t \in BagToSet(pool) : t.pc \in {"ok", "fail"}

\* GatherReturns on the tasks of pool (lines 306-323): map_results lists
\* the tasks in the order of their batches, the task at place i being that
\* of batch_idx i - 1
PoolGatherReturns ==
    /\ pc = "gather"
    /\ PoolGatherDone
    /\ \E results \in GatherOrders(pool) :
          map_results' = [i \in DOMAIN results |-> TaskResult(results[i], i)]
    /\ failed_batches' = failed_batches + PoolCount({"fail"})
    /\ pc' = "commit_map"
    /\ UNCHANGED <<status, current_phase, total_items, total_batches,
                   processed_batches, result, error_message, error_phase,
                   items_with_chunks, context_count, batch_len, task,
                   permits, reduce_calls, row, others>>

\* the steps the scheduling of asyncio brings about: those of
\* process_query and of its tasks, in task or in pool, but for the return
\* of the reduce call; a run keeps its tasks where it started with them,
\* and at most MaxWideRaises attempts of the tasks of pool raise
LiveSteps ==
    \/ StepsToGather
    \/ pool = EmptyBag /\ GatherReturns
    \/ WideNext /\ PoolRaises' <= MaxWideRaises
    \/ PoolGatherReturns
    \/ StepsFromGather

LiveInit == Init \/ WideInit

LiveNext ==
    \/ LiveSteps
    \/ ReduceCallReturns
    \/ CancelJob

\* The job under the scheduling of asyncio: a coroutine that can run does
\* run, and every call awaited (corpus read, embedding, completion, commit,
\* sleep) returns or raises in the end.  Each task takes a bounded number
\* of steps, so weak fairness of the steps together gives every task its
\* turn.  The fairness is stated of the steps but ReduceCallReturns:
\* ReduceCallRaises is enabled exactly where ReduceCallReturns is and
\* either can be taken once, so on these behaviours it is the weak
\* fairness of all steps of process_query and its tasks.  No request to
\* cancel_job is ever required to arrive.
SpecLive == LiveInit /\ [][LiveNext]_vars /\ WF_vars(LiveSteps)

----------------------------------------------------------------------------
(* _create_smart_batches on its own: applied to every list of at most      *)
(* MaxBatchItems items with chunk counts in BatchChunks.                   *)

BatchInit ==
    /\ JobInit
    /\ pool = EmptyBag
    /\ fn_pc = "input"
    /\ fn_input \in {AsItems(c) : c \in SeqsUpTo(BatchChunks, MaxBatchItems)}
    /\ fn_output = <<>>

ApplyCreateSmartBatches ==
    /\ fn_pc = "input"
    /\ fn_output' = CreateSmartBatches(fn_input)
    /\ fn_pc' = "output"
    /\ UNCHANGED <<fn_input, jobvars, pool>>

BatchNext == ApplyCreateSmartBatches

SpecBatch == BatchInit /\ [][BatchNext]_vars

----------------------------------------------------------------------------
(* _build_aggregation_details on its own: applied, with the summary of     *)
(* _calculate_aggregation as process_query does (lines 93-109), to every   *)
(* list of at most MaxResults map results over DetailResults, for every    *)
(* intent type.                                                            *)

DetailResults ==
    {Found(1), Found(5), NotRelevant,
     Placeholder("Chat completion timed out"), Placeholder("")}

DetailsInit ==
    /\ JobInit
    /\ pool = EmptyBag
    /\ fn_pc = "input"
    /\ fn_input \in [map_results : SeqsUpTo(DetailResults, MaxResults),
                     intent_type : AllIntents,
                     n_items : 1..2]
    /\ fn_output = <<>>

ApplyBuildAggregationDetails ==
    /\ fn_pc = "input"
    /\ LET summary == CalculateAggregation(fn_input.map_results,
                                           fn_input.intent_type)
       IN  fn_output' =
               [summary |-> summary,
                details |-> BuildAggregationDetails(
                                fn_input.map_results, summary,
                                fn_input.n_items, fn_input.intent_type)]
    /\ fn_pc' = "output"
    /\ UNCHANGED <<fn_input, jobvars, pool>>

DetailsNext == ApplyBuildAggregationDetails

SpecDetails == DetailsInit /\ [][DetailsNext]_vars

----------------------------------------------------------------------------
(* _calculate_aggregation on its own: applied to every list of at most     *)
(* MaxResults map results over AggResults, and to a permutation of it.     *)

Big == [hi |-> 1, lo |-> 0]

One == [hi |-> 0, lo |-> 1]

NoDate == [present |-> FALSE, month |-> "", day |-> 0]

AggEntries ==
    [value : {One, Big},
     category : {"food", "absent"},
     date : {NoDate, [present |-> TRUE, month |-> "2024-12", day |-> 24]}]

PlainEntry(v) == [value |-> v, category |-> "food", date |-> NoDate]

AggData ==
    {<<>>} \cup {<<e>> : e \in AggEntries}
           \cup {<<PlainEntry(One), PlainEntry(Big)>>,
                 <<PlainEntry(One), PlainEntry(One)>>}

AggResults ==
    [relevant : {TRUE}, extracted_data : AggData]
        \cup [relevant : {FALSE}, extracted_data : {<<PlainEntry(One)>>}]

PermutationsOf(n) ==
    {p \in [1..n -> 1..n] : \A i, j \in 1..n : p[i] = p[j] => i = j}

Permuted(s, p) ==
    [i \in DOMAIN s |-> s[p[i]]]

AggInit ==
    /\ JobInit
    /\ pool = EmptyBag
    /\ fn_pc = "input"
    /\ fn_input \in [map_results : SeqsUpTo(AggResults, MaxResults),
                     intent_type : AggIntents]
    /\ fn_output = <<>>

ApplyCalculateAggregation ==
    /\ fn_pc = "input"
    /\ \E p \in PermutationsOf(Len(fn_input.map_results)) :
          LET permuted == Permuted(fn_input.map_results, p) IN
          fn_output' =
              [permuted |-> permuted,
               summary |-> CalculateAggregation(fn_input.map_results,
                                                fn_input.intent_type),
               summary_permuted |-> CalculateAggregation(permuted,
                                                fn_input.intent_type)]
    /\ fn_pc' = "output"
    /\ UNCHANGED <<fn_input, jobvars, pool>>

AggNext == ApplyCalculateAggregation

SpecAgg == AggInit /\ [][AggNext]_vars

----------------------------------------------------------------------------
(* IntentClassifier (backend/app/services/intent_service.py).  A query is  *)
(* the sequence of its characters.  The parsed completion of the model is  *)
(* a response: [kind |-> "not_json"], [kind |-> "non_object"] (a JSON      *)
(* list, string, number or null) or an object [kind |-> "object",          *)
(* intent_type, filter_criteria, confidence, reasoning,                    *)
(* requires_full_scan], where intent_type is "absent" for an object        *)
(* without the key, filter_criteria is "absent" (no key), "null", "empty"  *)
(* (an object without semantic_filter) or the text of its semantic_filter, *)
(* confidence and requires_full_scan are <<>> for an object without the    *)
(* key and <<value>> for one with it, and reasoning is "absent" or its     *)
(* text.  A plan has the same fields but kind, with the values themselves  *)
(* for confidence and requires_full_scan.  folder_item_counts is           *)
(* [is_none, values]: None, or the counts of the dict.  Times are in       *)
(* tenths of a second, confidences in hundredths.                          *)

QUICK_QUERY_THRESHOLD_SECONDS == 5

ITEMS_PER_SECOND_ESTIMATE == 10

\* classifications made in a run of the classifier model
MaxClassifications == 2

UpperCase ==
    <<"A", "B", "C", "D", "E", "F", "G", "H", "I", "J", "K", "L", "M", "N",
      "O", "P", "Q", "R", "S", "T", "U", "V", "W", "X", "Y", "Z">>

LowerCase ==
    <<"a", "b", "c", "d", "e", "f", "g", "h", "i", "j", "k", "l", "m", "n",
      "o", "p", "q", "r", "s", "t", "u", "v", "w", "x", "y", "z">>

\* str.lower() on one character
LowerChar(c) ==
    IF \E i \in DOMAIN UpperCase : UpperCase[i] = c
    THEN LowerCase[CHOOSE i \in DOMAIN UpperCase : UpperCase[i] = c]
    ELSE c

\* line 178: user_query.lower()
Lower(text) == [i \in DOMAIN text |-> LowerChar(text[i])]

\* `kw in query_lower`: kw is a substring of text
Contains(text, kw) ==
    \E i \in 0..(Len(text) - Len(kw)) : SubSeq(text, i + 1, i + Len(kw)) = kw

\* line 180
aggregation_keywords ==
    << <<"t", "o", "t", "a", "l">>,
       <<"s", "u", "m">>,
       <<"c", "o", "u", "n", "t">>,
       <<"h", "o", "w", " ", "m", "a", "n", "y">>,
       <<"a", "v", "e", "r", "a", "g", "e">>,
       <<"a", "l", "l">> >>

\* line 181
summary_keywords ==
    << <<"s", "u", "m", "m", "a", "r", "i", "z", "e">>,
       <<"o", "v", "e", "r", "v", "i", "e", "w">>,
       <<"s", "u", "m", "m", "a", "r", "y">>,
       <<"t", "e", "l", "l", " ", "m", "e", " ", "a", "b", "o", "u", "t">> >>

\* any(kw in query_lower for kw in keywords)
AnyKeyword(query_lower, keywords) ==
    \E k \in DOMAIN keywords : Contains(query_lower, keywords[k])

\* `sum(folder_item_counts.values()) if folder_item_counts else default`
\* (lines 143, 193): None and the empty dict are both falsy
TotalItems(folder_item_counts, default) ==
    IF folder_item_counts.is_none \/ folder_item_counts.values = <<>>
    THEN default
    ELSE SumSeq(folder_item_counts.values)

\* estimated_time > QUICK_QUERY_THRESHOLD_SECONDS, the time in tenths
RequiresAsync(estimated_time) ==
    estimated_time > 10 * QUICK_QUERY_THRESHOLD_SECONDS

\* lines 170-207
GetDefaultIntent(user_query, folder_item_counts) ==
    LET query_lower == Lower(user_query)
        it == IF AnyKeyword(query_lower, aggregation_keywords)
              THEN "aggregation"
              ELSE IF AnyKeyword(query_lower, summary_keywords)
                   THEN "full_folder_summary"
                   ELSE "quick_qa"
        requires_full_scan == it # "quick_qa"
        total == TotalItems(folder_item_counts, 10)
        estimated_items == IF requires_full_scan THEN total ELSE 10
        estimated_time ==
            10 + (10 * estimated_items) \div ITEMS_PER_SECOND_ESTIMATE
    IN  [intent_type |-> it,
         confidence |-> 30,
         reasoning |-> "Fallback classification based on keywords",
         requires_full_scan |-> requires_full_scan,
         requires_async |-> RequiresAsync(estimated_time),
         estimated_items |-> estimated_items,
         estimated_time_seconds |-> estimated_time,
         filter_criteria |-> "empty"]

\* EnrichRaises for an enrichment that takes any JSON object
EnrichRaisesOnNonObjects(intent_data) ==
    intent_data.kind # "object"

\* lines 145-147 raise: KeyError on intent_data["intent_type"], or
\* AttributeError on the .get of a filter_criteria that is null, which is
\* read only when the intent is not quick_qa
EnrichRaises(intent_data) ==
    \/ intent_data.kind # "object"
    \/ intent_data.intent_type = "absent"
    \/ /\ intent_data.intent_type # "quick_qa"
       /\ intent_data.filter_criteria = "null"

\* dict.setdefault (lines 137-138) on a key held as <<>> or <<value>>:
\* the value of the completion where it has the key, else the default
SetDefault(held, default) ==
    IF held = <<>> THEN default ELSE held[1]

\* lines 129-168, for intent_data on which they do not raise: the object
\* of the completion with the defaults of lines 137-140 for the keys it
\* lacks (reasoning has none and stays absent) and the estimates added.
\* int(total_items * 0.35) is (35 * total_items) \div 100 for every total
\* below 180.
ValidateAndEnrichIntent(intent_data, folder_item_counts) ==
    LET total == TotalItems(folder_item_counts, 0)
        filter_criteria == IF intent_data.filter_criteria = "absent"
                           THEN "empty" ELSE intent_data.filter_criteria
        estimated_items ==
            IF intent_data.intent_type = "quick_qa" THEN 10
            ELSE IF filter_criteria \notin {"empty", "null"}
                 THEN (35 * total) \div 100
                 ELSE total
        map_time == (10 * estimated_items) \div ITEMS_PER_SECOND_ESTIMATE
        reduce_time == IF estimated_items > 50 THEN 20 ELSE 10
        estimated_time == 10 + map_time + reduce_time
    IN  [intent_type |-> intent_data.intent_type,
         confidence |-> SetDefault(intent_data.confidence, 50),
         reasoning |-> intent_data.reasoning,
         requires_full_scan |->
             SetDefault(intent_data.requires_full_scan, FALSE),
         requires_async |-> RequiresAsync(estimated_time),
         estimated_items |-> estimated_items,
         estimated_time_seconds |-> estimated_time,
         filter_criteria |-> filter_criteria]

\* lines 59-73: what classify_intent returns for a parsed response
Classified(response, user_query, folder_item_counts) ==
    IF EnrichRaises(response)
    THEN GetDefaultIntent(user_query, folder_item_counts)
    ELSE ValidateAndEnrichIntent(response, folder_item_counts)

----------------------------------------------------------------------------
(* The classifier model: classify_intent is called MaxClassifications      *)
(* times on the same query and folder_item_counts; every call awaits the   *)
(* completion client, which raises or returns any of Responses.            *)

\* the queries of the classifier model
Queries ==
    << <<"s", "u", "m", "m", "a", "r", "i", "z", "e", " ", "m", "y", " ", "n",
          "o", "t", "e", "s">>,
       <<"T", "o", "t", "a", "l", " ", "s", "p", "e", "n", "d">>,
       <<"g", "i", "v", "e", " ", "m", "e", " ", "a", "n", " ", "o", "v", "e",
          "r", "v", "i", "e", "w">>,
       <<"t", "e", "l", "l", " ", "m", "e", " ", "a", "b", "o", "u", "t", " ",
          "c", "a", "t", "s">>,
       <<"w", "h", "a", "t", " ", "i", "s", " ", "x">>,
       <<"r", "e", "c", "a", "l", "l", " ", "i", "t">>,
       <<"h", "o", "w", " ", "m", "a", "n", "y">> >>

IntentTypes ==
    {"quick_qa", "aggregation", "full_folder_summary", "filtered_aggregation"}

\* the objects a completion answers with: each key of the prompt (lines
\* 94-110) present or not
Responses ==
    {[kind |-> "not_json"], [kind |-> "non_object"]}
        \cup [kind : {"object"},
              intent_type : IntentTypes \cup {"absent"},
              filter_criteria : {"absent", "null", "empty", "December"},
              confidence : {<<>>, <<90>>},
              reasoning : {"absent", "asks for a total"},
              requires_full_scan : {<<>>, <<TRUE>>}]

FolderItemCounts ==
    {[is_none |-> TRUE, values |-> <<>>]}
        \cup [is_none : {FALSE},
              values : {<<>>, <<10>>, <<30>>, <<31>>, <<20, 21>>, <<60>>,
                        <<100>>}]

IntentInit ==
    /\ JobInit
    /\ pool = EmptyBag
    /\ fn_pc = "input"
    /\ fn_input \in [user_query : {Queries[q] : q \in DOMAIN Queries},
                     folder_item_counts : FolderItemCounts]
    /\ fn_output = <<>>

\* lines 41-53: the prompt is built and the completion call is awaited
ClassifyIntent ==
    /\ fn_pc = "input"
    /\ Len(fn_output) < MaxClassifications
    /\ fn_pc' = "call"
    /\ UNCHANGED <<fn_input, fn_output, jobvars, pool>>

\* line 53 returns; lines 59-73
CompletionReturns ==
    /\ fn_pc = "call"
    /\ \E response \in Responses :
          fn_output' = Append(fn_output,
              [response |-> response,
               plan |-> Classified(response, fn_input.user_query,
                                   fn_input.folder_item_counts)])
    /\ fn_pc' = "input"
    /\ UNCHANGED <<fn_input, jobvars, pool>>

\* line 53 raises (an API error, a timeout); lines 70-73
CompletionRaises ==
    /\ fn_pc = "call"
    /\ fn_output' = Append(fn_output,
          [response |-> [kind |-> "raised"],
           plan |-> GetDefaultIntent(fn_input.user_query,
                                     fn_input.folder_item_counts)])
    /\ fn_pc' = "input"
    /\ UNCHANGED <<fn_input, jobvars, pool>>

IntentNext ==
    \/ ClassifyIntent
    \/ CompletionReturns
    \/ CompletionRaises

SpecIntent == IntentInit /\ [][IntentNext]_vars

----------------------------------------------------------------------------
(* SearchService (backend/app/services/search_service.py): semantic_search *)
(* with the hybrid ranking of _apply_hybrid_ranking; hybrid_search is      *)
(* semantic_search with use_hybrid_ranking = True (lines 354-363).  A row  *)
(* of the corpus read is [embedding, semantic, bm25]: whether its vector   *)
(* has an embedding, the cosine similarity lines 215-218 compute for it    *)
(* and the value _calculate_bm25_score returns for its title and content   *)
(* (line 307); both are numbers the model takes as given.  A result is     *)
(* [id, semantic_score, bm25_score, hybrid_score]: id is the position of   *)
(* its row, bm25_score and hybrid_score are <<>> while the key is absent   *)
(* and <<value>> once it is set.  Weights are in tenths.  With Ds the      *)
(* maximum of the semantic scores and Db the maximum of the BM25 scores    *)
(* (1 where the code does not divide), hybrid_score is kept in units of    *)
(* 1 / (10 * Ds * Db), the same unit for every result of a list.           *)

\* results returned with hybrid ranking: results_with_scores[:5], line 257
TOP_RESULTS == 5

\* the default of the parameter limit, line 169
DEFAULT_LIMIT == 10

\* largest number of rows a corpus read returns in the search model
MaxCandidates == 2

\* similarity and BM25 values of a row: negative, zero and positive
Scores == -2..2

\* max(m, v1, v2, ...) taken one value at a time (lines 314-315)
RECURSIVE MaxFrom(_, _)
MaxFrom(m, values) ==
    IF values = <<>>
    THEN m
    ELSE MaxFrom(IF Head(values) > m THEN Head(values) ELSE m, Tail(values))

\* s[:n]
Take(s, n) ==
    SubSeq(s, 1, IF Len(s) < n THEN Len(s) ELSE n)

\* list.sort(key=..., reverse=True) with key[i] the key of s[i]: descending,
\* elements with equal keys keep their order
StableSortDesc(s, key) ==
    LET place(i) ==
            1 + Cardinality({j \in DOMAIN s :
                                \/ key[j] > key[i]
                                \/ key[j] = key[i] /\ j < i})
    IN  [p \in DOMAIN s |-> s[CHOOSE i \in DOMAIN s : place(i) = p]]

\* lines 207-239: the rows with an embedding, scored
ResultsWithScores(rows) ==
    LET keep == {i \in DOMAIN rows : rows[i].embedding}
        RECURSIVE From(_)
        From(i) ==
            IF i > Len(rows) THEN <<>>
            ELSE (IF i \in keep
                  THEN <<[id |-> i,
                          semantic_score |-> rows[i].semantic,
                          bm25_score |-> <<>>,
                          hybrid_score |-> <<>>]>>
                  ELSE <<>>) \o From(i + 1)
    IN  From(1)

\* lines 284-328, for results on which they do not raise
ApplyHybridRanking(query_terms, rows, results, semantic_weight, bm25_weight) ==
    IF query_terms = <<>>
    THEN results
    ELSE
      LET bm25 == [k \in DOMAIN results |-> rows[results[k].id].bm25]
          semantic == [k \in DOMAIN results |-> results[k].semantic_score]
          max_bm25_score == MaxFrom(0, bm25)
          max_semantic_score == MaxFrom(0, semantic)
          Ds == IF max_semantic_score > 0 THEN max_semantic_score ELSE 1
          Db == IF max_bm25_score > 0 THEN max_bm25_score ELSE 1
          normalized_semantic(k) ==
              IF max_semantic_score > 0 THEN semantic[k] ELSE 0
          normalized_bm25(k) ==
              IF max_bm25_score > 0 THEN bm25[k] ELSE 0
      IN  [k \in DOMAIN results |->
              [results[k] EXCEPT
                  !.bm25_score = <<bm25[k]>>,
                  !.hybrid_score =
                      <<semantic_weight * normalized_semantic(k) * Db
                          + bm25_weight * normalized_bm25(k) * Ds>>]]

\* x.get('hybrid_score', x['similarity']), line 248
HybridKey(x) ==
    IF x.hybrid_score = <<>> THEN x.semantic_score ELSE x.hybrid_score[1]

\* lines 206-267: what semantic_search returns for the rows read
RankedResults(query_terms, rows, use_hybrid_ranking, semantic_weight, bm25_weight, limit) ==
    LET results_with_scores == ResultsWithScores(rows) IN
    IF use_hybrid_ranking /\ results_with_scores # <<>>
    THEN LET ranked == ApplyHybridRanking(query_terms, rows,
                           results_with_scores, semantic_weight,
                           bm25_weight)
         IN  Take(StableSortDesc(ranked,
                      [k \in DOMAIN ranked |-> HybridKey(ranked[k])]),
                  TOP_RESULTS)
    ELSE IF use_hybrid_ranking
         THEN <<>>
         ELSE Take(StableSortDesc(results_with_scores,
                       [k \in DOMAIN results_with_scores |->
                           results_with_scores[k].semantic_score]),
                   limit)

----------------------------------------------------------------------------
(* The search model: semantic_search is called on a query, a weighting     *)
(* and a corpus of at most MaxCandidates rows; it awaits the embedding of  *)
(* the query, then the corpus read, and either of them returns or raises.  *)
(* The outcome is [raised, logged, results]: whether semantic_search       *)
(* raised, what it logged as an error, and the list it returned.           *)

SearchRows ==
    [embedding : {TRUE}, semantic : Scores, bm25 : Scores]
        \cup {[embedding |-> FALSE, semantic |-> 0, bm25 |-> 0]}

SearchWeights ==
    {[semantic |-> 10, bm25 |-> 0],
     [semantic |-> 0, bm25 |-> 10],
     [semantic |-> 7, bm25 |-> 3]}

SearchQueries == {<<>>, <<"apple">>}

SearchInit ==
    /\ JobInit
    /\ pool = EmptyBag
    /\ fn_pc = "input"
    /\ fn_input \in [query_terms : SearchQueries,
                     rows : SeqsUpTo(SearchRows, MaxCandidates),
                     use_hybrid_ranking : BOOLEAN,
                     weights : SearchWeights]
    /\ fn_output = <<>>

\* lines 177-179: the embedding of the query is awaited
SemanticSearch ==
    /\ fn_pc = "input"
    /\ fn_pc' = "embedding"
    /\ UNCHANGED <<fn_input, fn_output, jobvars, pool>>

\* line 179 returns; lines 183-199: the corpus read is awaited
EmbeddingReturns ==
    /\ fn_pc = "embedding"
    /\ fn_pc' = "execute"
    /\ UNCHANGED <<fn_input, fn_output, jobvars, pool>>

\* SearchFails with the exception re-raised
SearchFailsAndRaises ==
    /\ fn_pc \in {"embedding", "execute"}
    /\ fn_output' = [raised |-> TRUE,
                     logged |-> "Semantic search failed",
                     results |-> <<>>]
    /\ fn_pc' = "output"
    /\ UNCHANGED <<fn_input, jobvars, pool>>

\* line 179 or line 199 raises; lines 269-274
SearchFails ==
    /\ fn_pc \in {"embedding", "execute"}
    /\ fn_output' = [raised |-> FALSE,
                     logged |-> "Semantic search failed",
                     results |-> <<>>]
    /\ fn_pc' = "output"
    /\ UNCHANGED <<fn_input, jobvars, pool>>

\* line 199 returns; lines 200-267
CorpusReturns ==
    /\ fn_pc = "execute"
    /\ fn_output' =
          [raised |-> FALSE,
           logged |-> "none",
           results |-> RankedResults(fn_input.query_terms, fn_input.rows,
                           fn_input.use_hybrid_ranking,
                           fn_input.weights.semantic, fn_input.weights.bm25,
                           DEFAULT_LIMIT)]
    /\ fn_pc' = "output"
    /\ UNCHANGED <<fn_input, jobvars, pool>>

SearchNext ==
    \/ SemanticSearch
    \/ EmbeddingReturns
    \/ SearchFails
    \/ CorpusReturns

SpecSearch == SearchInit /\ [][SearchNext]_vars

----------------------------------------------------------------------------
----------------------------------------------------------------------------
(* Properties of the job.                                                  *)

\* process_query has returned or raised
Ended == pc \in {"returned", "raised"}

AllBatchesFailed ==
    /\ Batches # {}
    /\ \A i \in Batches : task[i].pc = "fail"

SomeBatchSucceeded == \E i \in Batches : task[i].pc = "ok"

\* map completion calls in flight
MapCallsInFlight ==
    Cardinality({i \in Batches : task[i].pc = "call"}) + PoolCount({"call"})

\* C1: in every reachable state of a job, under any interleaving of the
\* batch tasks and any pattern of call failures, commit failures and
\* retries, processed_batches + failed_batches <= total_batches.
C1_CountersWithinTotal ==
    processed_batches + failed_batches <= total_batches

\* C2 as stated: when process_query has ended on a job with batches, the
\* status is failed if every batch failed both attempts, and completed if
\* at least one batch succeeded.
C2_StatusFollowsBatches ==
    Ended =>
        /\ AllBatchesFailed => status = "failed"
        /\ SomeBatchSucceeded => status = "completed"

\* the exceptions process_query handles after a batch can have succeeded
LateFailures == {"commit", "aggregation", "reduce", DurationError}

\* C2 amended: when process_query has ended on a job with batches, the
\* status is failed if every batch failed both attempts; if at least one
\* batch succeeded it is completed, even when other batches failed, unless
\* a step outside the batch tasks raised (a commit, the aggregation, the
\* reduce completion call, the duration of line 117 on a job without
\* started_at).
C2_StatusFollowsBatchesUnlessLateFailure ==
    Ended =>
        /\ AllBatchesFailed => status = "failed"
        /\ (SomeBatchSucceeded /\ error_message \notin LateFailures)
              => status = "completed"

\* a run that completed although a batch failed
C2_Witness ==
    /\ pc = "returned"
    /\ status = "completed"
    /\ \E i \in Batches : task[i].pc = "fail"
    /\ \E i \in Batches : task[i].pc = "ok"

\* C3: once the status of the job's row is completed, failed or cancelled
\* it never changes again; no commit of process_query overwrites the
\* cancelled that cancel_job has written.
C3_TerminalStatusStays ==
    [][row.status \in Terminal => row.status' = row.status]_vars

\* C4: current_phase only advances along initialization, map, reduce,
\* synthesis, complete, one phase at a time, and never moves back, also
\* when the run ends in failure.
C4_PhaseOnlyAdvances ==
    [][PhaseRank(current_phase') \in
          {PhaseRank(current_phase), PhaseRank(current_phase) + 1}]_vars

\* a run that failed after it had left the map phase
C4_Witness ==
    /\ pc = "raised"
    /\ current_phase = "synthesis"
    /\ status = "failed"

\* C5: at most MAX_CONCURRENT_MAP_CALLS map completion calls are in
\* flight at a time, and so are the tasks holding a permit: a task in its
\* retry backoff or in its progress commit still holds its permit.
C5_AtMostTenMapCalls ==
    /\ MapCallsInFlight <= MAX_CONCURRENT_MAP_CALLS
    /\ PoolCount({"call", "sleep", "commit"}) <= MAX_CONCURRENT_MAP_CALLS

\* every permit is taken, one of them by a task in its backoff, and a
\* batch is waiting for a permit
C5_Witness ==
    /\ permits = 0
    /\ PoolCount({"sleep"}) >= 1
    /\ PoolCount({"call"}) + PoolCount({"sleep"}) = MAX_CONCURRENT_MAP_CALLS
    /\ PoolCount({"new"}) >= 1

\* completion calls of batch i that raised or returned text that is no
\* JSON object: those issued, less those that returned an object and the
\* one in flight
CallsFailed(i) ==
    task[i].calls - task[i].returns - (IF task[i].pc = "call" THEN 1 ELSE 0)

\* C6: a batch gets at most MAP_RETRY_ATTEMPTS completion calls, the
\* second only after the first failed (it raised, or its text did not
\* parse); a batch that failed its last attempt stands in map_results as
\* {relevant: false, error, batch_index}; the job is aborted for failed
\* batches only when all of them failed, and every other batch has run
\* when gather returns.
C6_RetryOnceThenPlaceholder ==
    /\ \A i \in Batches :
          /\ task[i].calls <= MAP_RETRY_ATTEMPTS
          /\ task[i].calls > 1 => CallsFailed(i) >= task[i].calls - 1
          /\ (i \in DOMAIN map_results /\ task[i].pc = "fail")
                => /\ ~map_results[i].relevant
                   /\ map_results[i].error = task[i].error
                   /\ map_results[i].error # "absent"
          /\ i \in DOMAIN map_results => task[i].calls >= 1
    /\ error_message = "All batches failed to process"
          => \A i \in Batches : task[i].pc = "fail"
    /\ (pc = "commit_reduce" /\ SomeBatchSucceeded) => status # "failed"

\* C7: once current_phase is reduce (or later), and whenever the reduce
\* call has been issued, every batch task has returned or raised: no map
\* completion call is in flight, and none can start.
C7_ReduceAfterAllTasks ==
    (PhaseRank(current_phase) >= PhaseRank("reduce") \/ reduce_calls > 0)
        => /\ \A i \in Batches : task[i].pc \in {"ok", "fail"}
           /\ MapCallsInFlight = 0

\* the reduce call is in flight after a map phase of several batches
C7_Witness ==
    /\ pc = "reduce_call"
    /\ reduce_calls = 1
    /\ Len(task) >= 3
    /\ \E i \in Batches : task[i].calls = MAP_RETRY_ATTEMPTS

----------------------------------------------------------------------------
(* Properties of _create_smart_batches (under SpecBatch).                  *)

\* total chunk count of a batch
BatchChunkCount(batch) ==
    SumSeq([k \in DOMAIN batch |-> batch[k].chunks])

\* C8: no batch is empty and the batches, concatenated in order, are
\* exactly the input list (every item in exactly one batch, the batch
\* sizes adding up to the number of items); there are no batches only for
\* an empty list.
C8_BatchesPartitionItems ==
    fn_pc = "output" =>
        /\ \A b \in DOMAIN fn_output : fn_output[b] # <<>>
        /\ Flatten(fn_output) = fn_input
        /\ SumSeq([b \in DOMAIN fn_output |-> Len(fn_output[b])])
              = Len(fn_input)
        /\ Len(fn_output) = 0 <=> Len(fn_input) = 0

\* a list split into several batches, one of them of several items
C8_Witness ==
    /\ fn_pc = "output"
    /\ Len(fn_output) >= 2
    /\ \E b \in DOMAIN fn_output : Len(fn_output[b]) >= 2

\* C9: a batch has at most 1.5 x TARGET_CHUNKS_PER_BATCH chunks unless it
\* is a single item with more chunks than that, and such an item is alone
\* in its batch.
C9_BatchChunkBound ==
    fn_pc = "output" =>
        \A b \in DOMAIN fn_output :
            /\ \/ BatchChunkCount(fn_output[b]) * 10
                      <= TARGET_CHUNKS_PER_BATCH * 15
               \/ Len(fn_output[b]) = 1
            /\ \A k \in DOMAIN fn_output[b] :
                   fn_output[b][k].chunks * 10 > TARGET_CHUNKS_PER_BATCH * 15
                       => Len(fn_output[b]) = 1

\* an oversize item between two batches of several items
C9_Witness ==
    /\ fn_pc = "output"
    /\ \E b \in DOMAIN fn_output :
          /\ Len(fn_output[b]) = 1
          /\ fn_output[b][1].chunks * 10 > TARGET_CHUNKS_PER_BATCH * 15
    /\ \E b \in DOMAIN fn_output :
          /\ Len(fn_output[b]) >= 2
          /\ BatchChunkCount(fn_output[b]) * 10 = TARGET_CHUNKS_PER_BATCH * 12

----------------------------------------------------------------------------
(* Properties of _calculate_aggregation (under SpecAgg).                   *)

\* C10: for every list of map results and every permutation of it,
\* _calculate_aggregation returns identical total, count, by_category and
\* by_month.
C10_AggregationOrderIndependent ==
    fn_pc = "output" =>
        /\ fn_output.summary.total = fn_output.summary_permuted.total
        /\ fn_output.summary.count = fn_output.summary_permuted.count
        /\ fn_output.summary.by_category
              = fn_output.summary_permuted.by_category
        /\ fn_output.summary.by_month = fn_output.summary_permuted.by_month


----------------------------------------------------------------------------
(* Arithmetic the properties are stated in: the exact sum of numbers       *)
(* hi * 2^53 + lo, and the double nearest to it, as opposed to the sum     *)
(* the code accumulates, which is rounded after every addition.            *)

ExactAdd(x, y) == [hi |-> x.hi + y.hi, lo |-> x.lo + y.lo]

RECURSIVE ExactSum(_)
ExactSum(values) ==
    IF values = <<>> THEN FloatZero
    ELSE ExactAdd(Head(values), ExactSum(Tail(values)))

\* the double nearest to the sum of the values
NearestSum(values) ==
    LET exact == ExactSum(values) IN RoundToDouble(exact.hi, exact.lo)

\* the extracted entries of the map results that are marked relevant
RelevantEntries(results) ==
    Flatten([i \in DOMAIN results |->
                IF results[i].relevant THEN results[i].extracted_data
                ELSE <<>>])

CategoryOf(entry) ==
    IF entry.category = "absent" THEN "uncategorized" ELSE entry.category

EntriesOfCategory(entries, c) ==
    SelectSeq(entries, LAMBDA e : CategoryOf(e) = c)

ValuesOf(entries) == [i \in DOMAIN entries |-> entries[i].value]

RECURSIVE SumOver(_, _, _)
SumOver(dict, keys, field) ==
    IF keys = {} THEN IF field = "count" THEN 0 ELSE FloatZero
    ELSE LET k == CHOOSE x \in keys : TRUE
             rest == SumOver(dict, keys \ {k}, field)
         IN  IF field = "count" THEN dict[k].count + rest
             ELSE ExactAdd(dict[k].total, rest)

\* C11: for the aggregation intents the summary has count = number of
\* extracted entries of the relevant map results, total = sum of their
\* values, average = total / count (0 for count 0), and by_category maps
\* each category to the count and sum of its entries, so that the counts of
\* by_category add up to count and its totals to total; map results that
\* are not relevant contribute nothing.  A sum is read as the double
\* nearest to the sum of the values, the most a float result can give.
C11_AggregationTotals ==
    fn_pc = "output" =>
        LET entries == RelevantEntries(fn_input.map_results)
            summary == fn_output.summary
            cats == {CategoryOf(entries[i]) : i \in DOMAIN entries}
        IN  /\ summary.count = Len(entries)
            /\ summary.total = NearestSum(ValuesOf(entries))
            /\ summary.average =
                  IF summary.count > 0
                  THEN [num |-> summary.total, den |-> summary.count]
                  ELSE [num |-> FloatZero, den |-> 1]
            /\ DOMAIN summary.by_category = cats
            /\ \A c \in cats :
                  /\ summary.by_category[c].count
                        = Len(EntriesOfCategory(entries, c))
                  /\ summary.by_category[c].total
                        = NearestSum(ValuesOf(EntriesOfCategory(entries, c)))
            /\ SumOver(summary.by_category, cats, "count") = summary.count
            /\ LET sum == SumOver(summary.by_category, cats, "total")
               IN  RoundToDouble(sum.hi, sum.lo) = summary.total


\* the map results that stand for a failed batch (they carry an error)
FailedResults(results) ==
    {i \in DOMAIN results : results[i].error # "absent"}

\* the relevant items the map results found: the extracted entries for the
\* aggregation intents, the items the relevant map results report for
\* full_folder_summary
RelevantItemsFound(results, intent_type) ==
    IF intent_type \in AggIntents THEN Len(RelevantEntries(results))
    ELSE SumSeq([i \in DOMAIN results |->
                    IF results[i].relevant THEN results[i].item_count
                    ELSE 0])

\* C12: for every intent type the confidence of aggregation_details is 0.0
\* when all batches failed, and otherwise 1 - failed_batches/total_batches,
\* times 0.7 exactly when fewer than 5 relevant items were found; it lies
\* in [0, 1].  The confidence is in hundredths and is allowed the half
\* hundredth that rounding to two decimals takes.
C12_ConfidenceHeuristic ==
    fn_pc = "output" /\ "details" \in DOMAIN fn_output =>
        LET results == fn_input.map_results
            t == Len(results)
            f == Cardinality(FailedResults(results))
            c == fn_output.details.confidence
            factor == IF RelevantItemsFound(results, fn_input.intent_type) < 5
                      THEN 7 ELSE 10
            diff == 10 * c * t - 100 * factor * (t - f)
        IN  /\ c \in 0..100
            /\ IF f = t THEN c = 0
               ELSE diff <= 5 * t /\ -diff <= 5 * t


----------------------------------------------------------------------------
(* Properties of the outcome of process_query (under Spec).                *)

\* the batches whose task raised after its last attempt
BatchesThatFailed == {i \in Batches : task[i].pc = "fail"}

\* C13: a job that completes although at least one batch failed has a
\* result and aggregation_details whose confidence is below 1.0 and whose
\* processing_info.batches_failed is the number of batches that failed,
\* the same number as job.failed_batches, greater than 0.
C13_PartialFailureAnnotated ==
    (status = "completed" /\ BatchesThatFailed # {}) =>
        /\ result = "final"
        /\ Len(aggregation_details) = 1
        /\ aggregation_details[1].confidence < 100
        /\ aggregation_details[1].processing_info.batches_failed
              = Cardinality(BatchesThatFailed)
        /\ failed_batches = Cardinality(BatchesThatFailed)
        /\ failed_batches > 0


\* the fetch has returned no items: the canned response is the job's result
EmptyFolder == result = "empty_folder"

\* no batch was created and no embedding or completion call was made: the
\* coroutine has not been at the filter call or at the reduce call, and no
\* batch task exists
NoBatchNoCall ==
    /\ total_batches = 0
    /\ batch_len = <<>>
    /\ Batches = {}
    /\ map_results = <<>>
    /\ reduce_calls = 0
    /\ context_count = 0
    /\ pc \in {"commit_empty", "returned", "commit_failed", "raised"}

\* C14 as stated: when the fetch returns no items, process_query returns
\* the canned empty-folder response (sources [], context_count 0), sets
\* job.status to completed, creates no batches, makes no embedding or
\* completion call, and does not raise.
C14_EmptyFolderCompletes ==
    EmptyFolder =>
        /\ NoBatchNoCall
        /\ status = "completed"
        /\ pc \in {"commit_empty", "returned"}

\* C14, amended: the same, unless the commit of the empty response (line
\* 60) raises; then the job is failed in phase initialization and
\* process_query raises, still without a batch or a call.
C14_EmptyFolderCompletesUnlessCommitRaises ==
    EmptyFolder =>
        /\ NoBatchNoCall
        /\ pc \in {"commit_empty", "returned"} => status = "completed"
        /\ pc \in {"commit_failed", "raised"}
              => /\ status = "failed"
                 /\ error_message = "commit"
                 /\ error_phase = "initialization"

\* process_query has returned the empty-folder response
C14_Witness ==
    /\ EmptyFolder
    /\ pc = "returned"
    /\ status = "completed"
    /\ total_items = 0


\* the except clause of process_query has run: its commit is awaited, or
\* the exception has been re-raised
Raising == pc \in {"commit_failed", "raised"}

\* C15: whenever process_query raises, the job is left with status failed,
\* error_message and completed_at set, and error_details.phase equal to the
\* phase that was current when the exception occurred: initialization for
\* a fetch or filter failure, map when all batches failed, reduce for a
\* failure of the aggregation step, synthesis for a failure of the reduce
\* call; the exception is re-raised (process_query never returns after its
\* except clause has run).
C15_FailureRecordsPhase ==
    /\ Raising =>
          /\ status = "failed"
          /\ error_message # "none"
          /\ completed_at # 0
          /\ error_phase = current_phase
          /\ error_message \in {"fetch", "filter"}
                => error_phase = "initialization"
          /\ error_message = "All batches failed to process"
                => error_phase = "map"
          /\ error_message = "aggregation" => error_phase = "reduce"
          /\ error_message = "reduce" => error_phase = "synthesis"
    /\ pc = "returned" => error_message = "none"
    /\ error_message # "none" => Raising

\* process_query has raised after its reduce call failed
C15_Witness ==
    /\ pc = "raised"
    /\ status = "failed"
    /\ completed_at = ProcessTime
    /\ error_message = "reduce"
    /\ error_phase = "synthesis"


\* completion calls issued so far by the batch tasks
MapCallsIssued ==
    SumSeq([i \in Batches |-> task[i].calls])

\* C16: after cancel_job has marked the job cancelled (its commit has
\* written the row), process_query starts no further map completion call
\* for it and writes no late result: the status of the row, result,
\* aggregation_details and progress stay as they were at cancellation.
C16_CancellationStopsWork ==
    [][(row.status = "cancelled") =>
          /\ row.status' = "cancelled"
          /\ result' = result
          /\ progress' = progress
          /\ aggregation_details' = aggregation_details
          /\ task # <<>> /\ task' # <<>> => MapCallsIssued' = MapCallsIssued
          /\ task = <<>> /\ task' # <<>> => MapCallsIssued' = 0]_vars


----------------------------------------------------------------------------
(* Properties of the intent classifier (under SpecIntent).                 *)

\* the completion call failed or its text is no usable plan: an exception
\* or timeout, text that is not JSON, JSON that is not an object, or an
\* object without intent_type
Unusable(response) ==
    \/ response.kind \in {"raised", "not_json", "non_object"}
    \/ response.kind = "object" /\ response.intent_type = "absent"

\* C17: classify_intent never fails outward: for every outcome of the
\* completion call that is an exception or timeout, text that is not JSON,
\* JSON that is not an object or JSON without intent_type, it returns a
\* plan, and that plan is the keyword-fallback plan with confidence 0.3.
C17_ClassifierFallsBack ==
    /\ fn_pc = "input" => Len(fn_output) \in 0..MaxClassifications
    /\ \A k \in DOMAIN fn_output :
          Unusable(fn_output[k].response) =>
              /\ fn_output[k].plan.confidence = 30
              /\ fn_output[k].plan.reasoning
                    = "Fallback classification based on keywords"
              /\ fn_output[k].plan.intent_type
                    \in {"quick_qa", "aggregation", "full_folder_summary"}
              /\ fn_output[k].plan
                    = GetDefaultIntent(fn_input.user_query,
                                       fn_input.folder_item_counts)

\* a JSON object without intent_type was answered with the fallback plan,
\* and so was a call that raised
C17_Witness ==
    /\ Len(fn_output) = 2
    /\ fn_output[1].response.kind = "object"
    /\ fn_output[1].response.intent_type = "absent"
    /\ fn_output[1].plan.confidence = 30
    /\ fn_output[2].response.kind = "raised"
    /\ fn_output[2].plan.confidence = 30


\* the keyword table of the classifier contract
TableAggregation ==
    << <<"t", "o", "t", "a", "l">>,
       <<"s", "u", "m">>,
       <<"c", "o", "u", "n", "t">>,
       <<"h", "o", "w", " ", "m", "a", "n", "y">>,
       <<"a", "v", "e", "r", "a", "g", "e">>,
       <<"a", "l", "l">> >>

TableSummary ==
    << <<"s", "u", "m", "m", "a", "r", "i", "z", "e">>,
       <<"o", "v", "e", "r", "v", "i", "e", "w">>,
       <<"t", "e", "l", "l", " ", "m", "e", " ", "a", "b", "o", "u", "t">> >>

\* the query uses the keyword: the keyword stands in it as a word or a
\* phrase of words
UsesKeyword(user_query, kw) ==
    Contains(<<" ">> \o Lower(user_query) \o <<" ">>,
             <<" ">> \o kw \o <<" ">>)

UsesOneOf(user_query, table) ==
    \E k \in DOMAIN table : UsesKeyword(user_query, table[k])

TableIntent(user_query) ==
    IF UsesOneOf(user_query, TableAggregation) THEN "aggregation"
    ELSE IF UsesOneOf(user_query, TableSummary) THEN "full_folder_summary"
         ELSE "quick_qa"

\* C18: in the keyword fallback the intent is a deterministic function of
\* the query that matches the keyword table: aggregation for a query using
\* an aggregation keyword, full_folder_summary for a query using a summary
\* keyword and no aggregation keyword, quick_qa otherwise ('summarize my
\* notes' is full_folder_summary); classifying the same query twice gives
\* the same plan.
C18_FallbackMatchesKeywordTable ==
    \A k \in DOMAIN fn_output :
        Unusable(fn_output[k].response) =>
            /\ fn_output[k].plan.intent_type
                  = TableIntent(fn_input.user_query)
            /\ \A j \in DOMAIN fn_output :
                  Unusable(fn_output[j].response)
                      => fn_output[j].plan = fn_output[k].plan


\* the total corpus size: the sum of folder_item_counts
CorpusSize == SumSeq(fn_input.folder_item_counts.values)

\* the plan has a semantic filter
HasSemanticFilter(plan) ==
    plan.filter_criteria \notin {"absent", "null", "empty"}

\* the estimation policy of the classifier contract, the time in tenths of
\* a second; 35% of the corpus size is taken to the whole item below
PolicyItems(plan) ==
    IF plan.intent_type = "quick_qa" THEN 10
    ELSE IF HasSemanticFilter(plan) THEN (35 * CorpusSize) \div 100
         ELSE CorpusSize

PolicyTime(estimated_items) ==
    10 + estimated_items + (IF estimated_items > 50 THEN 20 ELSE 10)

\* C19: every plan returned by classify_intent, from the model path or from
\* the keyword fallback, follows the estimation policy: estimated_items is
\* 10 for quick_qa, 35% of the corpus size for a plan with a semantic
\* filter, the corpus size for a full-scan plan, and estimated_time_seconds
\* = 1.0 + estimated_items/10 + (2.0 if estimated_items > 50 else 1.0).
C19_EstimationPolicy ==
    \A k \in DOMAIN fn_output :
        LET plan == fn_output[k].plan IN
        /\ plan.estimated_items = PolicyItems(plan)
        /\ plan.estimated_time_seconds = PolicyTime(plan.estimated_items)

\* C20: every returned plan has requires_async = (estimated_time_seconds >
\* 5), and two classifications over the same folder_item_counts that yield
\* the same intent_type and the same filter yield the same requires_async,
\* whether the plans came from the model path or from the keyword fallback.
C20_AsyncSwitchDeterministic ==
    /\ \A k \in DOMAIN fn_output :
          fn_output[k].plan.requires_async
              = (fn_output[k].plan.estimated_time_seconds > 50)
    /\ \A j, k \in DOMAIN fn_output :
          (/\ fn_output[j].plan.intent_type = fn_output[k].plan.intent_type
           /\ HasSemanticFilter(fn_output[j].plan)
                 = HasSemanticFilter(fn_output[k].plan)
           /\ HasSemanticFilter(fn_output[j].plan)
                 => fn_output[j].plan.filter_criteria
                       = fn_output[k].plan.filter_criteria)
              => fn_output[j].plan.requires_async
                    = fn_output[k].plan.requires_async

----------------------------------------------------------------------------
(* Properties of semantic_search (under SpecSearch).                       *)

\* semantic_search has returned results ranked with a query of at least
\* one token
RankedWithTokens ==
    /\ fn_pc = "output"
    /\ fn_output.logged = "none"
    /\ fn_input.use_hybrid_ranking
    /\ fn_input.query_terms # <<>>

\* the results are in descending order of the score, results of equal score
\* in the order of their rows
InStableOrderOf(results, score) ==
    \A p, q \in DOMAIN results :
        p < q =>
            \/ score[results[p].id] > score[results[q].id]
            \/ /\ score[results[p].id] = score[results[q].id]
               /\ results[p].id < results[q].id

\* C21: with bm25_weight = 0 the results of a query with at least one token
\* are in stable descending order of semantic similarity, and with
\* semantic_weight = 0 in stable descending order of BM25 score, whatever
\* the scores are (all zero or negative included).
C21_SingleSignalOrder ==
    RankedWithTokens =>
        /\ fn_input.weights.bm25 = 0 =>
               InStableOrderOf(fn_output.results,
                   [i \in DOMAIN fn_input.rows |-> fn_input.rows[i].semantic])
        /\ fn_input.weights.semantic = 0 =>
               InStableOrderOf(fn_output.results,
                   [i \in DOMAIN fn_input.rows |-> fn_input.rows[i].bm25])

\* C22: semantic_search (and hybrid_search, which is semantic_search with
\* hybrid ranking) never raises: no rows give the empty list, and a failed
\* embedding call or corpus read gives the empty list.
C22_SearchNeverRaises ==
    fn_pc = "output" =>
        /\ ~fn_output.raised
        /\ fn_input.rows = <<>> => fn_output.results = <<>>
        /\ fn_output.logged # "none" => fn_output.results = <<>>

\* a hybrid search whose embedding call or corpus read failed has returned
C22_Witness ==
    /\ fn_pc = "output"
    /\ fn_input.use_hybrid_ranking
    /\ fn_input.rows # <<>>
    /\ fn_output.logged = "Semantic search failed"
    /\ ~fn_output.raised

----------------------------------------------------------------------------
(* Properties of cancel_job (under SpecCancel).                            *)

\* request k is answered in this step
Answered(k) ==
    /\ k \in DOMAIN requests
    /\ requests[k].pc # "done"
    /\ requests'[k].pc = "done"

\* C23: cancel_job cancels only a job that is queued or processing: a
\* request is answered 200 only on a row of its user that is queued or
\* processing when the request cancels it; on a row completed, failed or
\* cancelled the owner's request is answered 400 and leaves status and
\* completed_at as they were, and the request of a user who does not own
\* the job is answered 403 and changes nothing.
C23_CancelOnlyWhileRunning ==
    [][\A k \in DOMAIN requests' :
          Answered(k) =>
              LET owned == row.exists /\ row.user_id = requests'[k].user_id
                  code == requests'[k].status_code
              IN  /\ code = 200 =>
                         owned /\ row.status \in {"queued", "processing"}
                  /\ owned /\ row.status \in Terminal =>
                         code = 400 /\ row' = row
                  /\ row.exists /\ ~owned =>
                         code = 403 /\ row' = row]_vars

----------------------------------------------------------------------------
(* Properties of the progress and the counters of the job.                 *)

\* progress commits of batch tasks (line 377) in flight
TaskCommitsInFlight ==
    Cardinality({i \in Batches : task[i].pc = "commit"})
        + PoolCount({"commit"})

\* C24: during the map phase the Job fields processed_batches,
\* processed_items, progress and failed_batches are written only after
\* gather has returned: while gather is awaited no step of a batch task
\* changes them and no batch task has a commit in flight (so no two commits
\* of the Job row are in flight at once).
C24_SingleWriter ==
    [][pc = "gather" =>
          /\ UNCHANGED <<processed_batches, processed_items, progress,
                         failed_batches>>
          /\ TaskCommitsInFlight' = 0]_vars

\* C25: progress is within [0, 1] in every state; in the map phase, once a
\* batch has succeeded, it is 0.1 + 0.75 x processed_batches /
\* total_batches and within [0.1, 0.85].
C25_ProgressBounds ==
    /\ FracLeq(Fraction(0, 1), progress)
    /\ FracLeq(progress, Fraction(1, 1))
    /\ (current_phase = "map" /\ processed_batches > 0) =>
          /\ FracEq(progress, MapProgress(processed_batches, total_batches))
          /\ FracLeq(Fraction(1, 10), progress)
          /\ FracLeq(progress, Fraction(85, 100))

\* the corpus is not empty but the semantic filter kept no item: the
\* batches have been made of no items
FilterKeptNothing ==
    /\ total_items > 0
    /\ total_batches = 0
    /\ current_phase # "initialization"

\* no batch task exists and no completion call has been made
NoBatchRun ==
    /\ batch_len = <<>>
    /\ Batches = {}
    /\ MapCallsIssued = 0
    /\ reduce_calls = 0
    /\ processed_batches = 0
    /\ failed_batches = 0

\* C26 as stated: when the corpus is not empty and the semantic filter
\* keeps no item, total_batches is 0, no batch runs and no completion call
\* is made, and process_query raises 'All batches failed to process',
\* leaving the job failed with error_details.phase 'map'.
C26_NoItemKeptFailsInMap ==
    FilterKeptNothing =>
        /\ NoBatchRun
        /\ current_phase = "map"
        /\ pc # "returned"
        /\ Raising =>
              /\ status = "failed"
              /\ error_phase = "map"
              /\ error_message = "All batches failed to process"

\* C26, amended: the same, unless one of the commits of the map phase
\* (lines 77, 323) raises; then process_query raises that exception, and
\* the job is failed with error_details.phase 'map' all the same.
C26_NoItemKeptFailsInMapUnlessCommitRaises ==
    FilterKeptNothing =>
        /\ NoBatchRun
        /\ current_phase = "map"
        /\ pc # "returned"
        /\ Raising =>
              /\ status = "failed"
              /\ error_phase = "map"
              /\ error_message \in {"All batches failed to process", "commit"}

\* process_query has raised 'All batches failed to process' on a job none
\* of whose items the filter kept
C26_Witness ==
    /\ FilterKeptNothing
    /\ pc = "raised"
    /\ status = "failed"
    /\ error_message = "All batches failed to process"
    /\ error_phase = "map"
    /\ Batches = {}

\* C27: a job completed through the whole pipeline has phase complete,
\* progress 1.0, its result and its aggregation_details; a job completed on
\* the empty-corpus path has phase initialization, the progress and
\* total_batches of a job not yet run, and no aggregation_details.
C27_CompletedShapes ==
    status = "completed" =>
        /\ result \in {"final", "empty_folder"}
        /\ result = "final" =>
              /\ current_phase = "complete"
              /\ FracEq(progress, Fraction(1, 1))
              /\ Len(aggregation_details) = 1
        /\ result = "empty_folder" =>
              /\ current_phase = "initialization"
              /\ progress = Fraction(0, 1)
              /\ total_batches = 0
              /\ aggregation_details = <<>>

\* process_query has returned on the empty-corpus path: the job is
\* completed in phase initialization with progress 0
C27_Witness ==
    /\ pc = "returned"
    /\ status = "completed"
    /\ result = "empty_folder"
    /\ current_phase = "initialization"
    /\ ~FracEq(progress, Fraction(1, 1))

\* progress commits that raised in task t: the attempts that failed less
\* the completion calls that raised
TaskCommitsRaised(t) ==
    t.fails - (t.calls - t.returns - (IF t.pc = "call" THEN 1 ELSE 0))

\* no database commit has raised inside a batch task
NoTaskCommitRaised ==
    \A i \in Batches : TaskCommitsRaised(task[i]) = 0

\* C28: as long as no commit raises inside a batch task, no step makes
\* progress smaller.
C28_ProgressNeverDecreases ==
    [][NoTaskCommitRaised' => FracLeq(progress, progress')]_vars

\* a job has completed with progress 1.0 after batches succeeded at their
\* first and at their second attempt, no commit having raised in a task
C28_Witness ==
    /\ pc = "returned"
    /\ status = "completed"
    /\ FracEq(progress, Fraction(1, 1))
    /\ NoTaskCommitRaised
    /\ \E i \in Batches : task[i].pc = "ok" /\ task[i].fails = 0
    /\ \E i \in Batches : task[i].pc = "ok" /\ task[i].fails = 1

\* gather has returned on a job with batches
MapPhaseEnded ==
    /\ Batches # {}
    /\ pc # "gather"

Succeeded == {i \in Batches : task[i].pc = "ok"}

\* C29: when the map phase has ended and no commit has raised inside a
\* batch task, processed_batches is the number of batches that succeeded,
\* failed_batches the number that failed both attempts, their sum
\* total_batches, processed_items the number of items of the batches that
\* succeeded, and map_results has one entry per batch, in the order of the
\* batch indices.
C29_EveryBatchCountedOnce ==
    (MapPhaseEnded /\ NoTaskCommitRaised) =>
        /\ processed_batches = Cardinality(Succeeded)
        /\ failed_batches = Cardinality(BatchesThatFailed)
        /\ processed_batches + failed_batches = total_batches
        /\ processed_items =
              SumSeq([i \in Batches |->
                         IF i \in Succeeded THEN batch_len[i] ELSE 0])
        /\ Len(map_results) = total_batches
        /\ \A i \in Batches :
              /\ map_results[i].batch_index = i - 1
              /\ i \in Succeeded =>
                    /\ map_results[i].error = "absent"
                    /\ map_results[i].items_in_batch = batch_len[i]
                    /\ map_results[i].relevant
                          = task[i].response[1].relevant
              /\ i \in BatchesThatFailed =>
                    /\ ~map_results[i].relevant
                    /\ map_results[i].error = task[i].error
                    /\ task[i].calls = MAP_RETRY_ATTEMPTS

\* the map phase has ended with a batch that failed both attempts before a
\* batch that succeeded at its second attempt
C29_Witness ==
    /\ MapPhaseEnded
    /\ NoTaskCommitRaised
    /\ \E i, j \in Batches :
           /\ i < j
           /\ task[i].pc = "fail"
           /\ task[j].pc = "ok"
           /\ task[j].fails = 1
    /\ processed_items > 1

----------------------------------------------------------------------------
(* Termination of process_query (under SpecLive).                          *)

\* every batch task has finished within MAP_RETRY_ATTEMPTS attempts and has
\* given its permit back
TasksFinished ==
    /\ \A i \in Batches :
          /\ TaskDone(i)
          /\ task[i].calls \in 1..MAP_RETRY_ATTEMPTS
    /\ \A t \in BagToSet(pool) :
          /\ t.pc \in {"ok", "fail"}
          /\ t.calls \in 1..MAP_RETRY_ATTEMPTS
    /\ (Batches # {} \/ pool # EmptyBag)
          => permits = MAX_CONCURRENT_MAP_CALLS

\* with more batches than permits (under SpecWideLive): every batch gets a
\* permit, finishes and gives the permit back
WideMapPhaseDrains ==
    <>[](/\ PoolCount({"ok", "fail"}) = WideBatches
         /\ permits = MAX_CONCURRENT_MAP_CALLS)

\* C30: when every awaited call returns or raises in the end, every run of
\* process_query ends, returning or raising, and leaves the job it holds
\* completed or failed for good; every batch task has by then taken the
\* semaphore, finished within 2 attempts and released it, also where the
\* batches outnumber the permits and tasks wait for one; when the run has
\* returned, the row of the job is no longer processing either.
C30_ProcessQueryTerminates ==
    <>[](/\ Ended
         /\ status \in {"completed", "failed"}
         /\ TasksFinished
         /\ pc = "returned" => row.status \in {"completed", "cancelled"})

\* a job with more batches than permits: every permit is held, one of
\* them by a task in its second call and one by a task in its backoff, and
\* a task waits for the semaphore
C30_Witness ==
    /\ pc = "gather"
    /\ total_batches > MAX_CONCURRENT_MAP_CALLS
    /\ permits = 0
    /\ PoolCount({"new"}) >= 1
    /\ PoolCount({"sleep"}) >= 1
    /\ \E t \in BagToSet(pool) : t.pc = "call" /\ t.calls = 2

====
